---- MODULE Spec2Model ----
(***************************************************************************)
(* A model of the kernel's per-CPU scheduler                               *)
(* (kernel/src/multitasking/scheduler.rs, pcb.rs) and of the boot          *)
(* memory-map filter (kernel/src/boot/mod.rs).                             *)
(*                                                                         *)
(* The scheduler is modelled for one CPU: READY_LIST, CURRENT_THREAD and   *)
(* OLD_THREAD are cpu_local and never migrate.  PROCESS_LIST is global, so *)
(* kill() of a process may arrive (from another CPU) at any point of a     *)
(* schedule step.                                                          *)
(***************************************************************************)
EXTENDS Integers, Sequences, FiniteSets, TLC

\* ------------------------------------------------------------------ bounds

\* Thread ids 1..MaxThreads can be created besides the idle thread (id 0).
MaxThreads == 3
\* Process ids 1..MaxProcesses can be created besides the idle process (id 0).
MaxProcesses == 2
\* Thread priorities of created threads are 1..MaxPriority.
MaxPriority == 2
\* Physical memory of the boot memory map spans the pages 0..MaxPage-1.
MaxPage == 5
\* The boot loader reports at most MaxAreas usable memory areas.
MaxAreas == 2
\* A usize of the stack model holds the byte numbers of StackWordPages pages.
StackWordPages == 10
\* The maximum size of a stack is 1..MaxStackPages pages.
MaxStackPages == 3
\* At most MaxStackOps calls of grow, shrink and resize are made on a stack.
MaxStackOps == 2
\* At most MaxNesting interrupt handlers are on the kernel stack at a time.
MaxNesting == 3
\* A register of the system-call model holds SyscallWordBits bits.
SyscallWordBits == 7

\* ------------------------------------------------------------- the state

VARIABLES
    tcbs,             \* thread id -> [pid, priority, state] of every TCB not yet dropped
    READY_LIST,       \* the ids of the TCBs held by the cpu-local ready heap
    CURRENT_THREAD,   \* the id of the TCB held by the cpu-local current slot
    OLD_THREAD,       \* the id of the TCB held by the cpu-local old slot, or None
    PROCESS_LIST,     \* process id -> [thread_count, state] of every PCB in the list
    pc,               \* where the CPU is: "run", "switch" (before switch_context), "after"
    failed,           \* "none", or the panic that stopped the kernel
    cpu_stack,        \* the thread whose kernel stack the CPU executes on
    preemption,       \* TRUE iff preemption is enabled
    preemption_state, \* thread id -> the state its suspended schedule_next_thread saved
    created,          \* [threads, processes]: how many ids have been handed out
    pcb_drops,        \* process id -> how often its PCB has been dropped
    pre,              \* the scheduler state at the entry of the schedule step in progress
    last_step         \* how the last schedule step ended: "none", "noswitch", "switched"

VARIABLES
    boot,             \* what the boot loader hands over: [memory_map, kernel_area, initramfs_area]
    iter,             \* the MemoryMapIterator: [to_exclude, current_entry, exclude_index,
                      \*                          multiboot_iterator]
    emitted,          \* the areas next() has returned so far, in order
    filter_pc         \* "new" before MemoryMapIterator::new, "next" while next() returns
                      \* areas, "none" once next() has returned None

VARIABLES
    stack,            \* the Stack: [top_address, bottom_address, max_size,
                      \*             base_stack_pointer, access_type]
    address_space,    \* TRUE iff the stack was created with Some(address_space)
    segments,         \* the segments of that address space: [start, length, flags, kind]
    page_table,       \* page number -> [flags, by] of every mapped page; by is "stack"
                      \* for a page the stack has mapped and "other" for any other page
    stack_pc,         \* "off", "new" (before Stack::new), "resize" (inside Stack::new,
                      \* before its resize), "live", "dropped"
    stack_failed,     \* "none", or the panic that stopped the kernel
    stack_ops,        \* how many calls of grow, shrink and resize have been made
    stack_call        \* the last call: [op, amount, args, before, mapped, unmapped]

VARIABLES
    boot_pc,               \* "loader" before main is entered, "booting" after boot::init,
                           \* "booted" once main has reached its loop, "running" once
                           \* interrupts are enabled, "stopped" after a panic
    magic_number,          \* the magic number main was entered with
    BOOT_METHOD,           \* "Unknown", "Multiboot" or "Multiboot2"
    init_called,           \* TRUE iff boot::init has been called
    information_structure, \* "unread", or the parser that has read it
    interrupts_enabled,    \* the interrupt flag of the CPU
    task_priority,         \* the task priority of the LAPIC
    handlers,              \* the interrupt handlers on the kernel stack, innermost last:
                           \* [vector, next, old_priority, flags, entry_priority, done,
                           \*  eoi_flags]
    returned               \* the handler that returned last, with exit_priority

VARIABLES
    syscall_result,        \* the register the exec system call has returned last
    exec_result            \* what exec has returned last: [tag, value]

VARIABLES
    physical_initramfs_area, \* the initramfs area the boot loader reports
    INITRAMFS_AREA,          \* the run-time area of the initramfs; its start counts
                             \* bytes from VIRTUAL_HIGH_MIN_ADDRESS
    memory_pc                \* "off", "boot" before memory::init, "initialized"

VARIABLES
    path,                  \* what one call of schedule_next_thread finds: [ready_some,
                           \* top_ge, current_dead, old_dead]
    sched_stmt,            \* the number of the statement the call executes next
    held,                  \* the locks the CPU holds
    executed,              \* the statements the call has executed
    lock_failed            \* "none", or what has stopped the call

filter_vars == <<boot, iter, emitted, filter_pc>>

lock_vars == <<path, sched_stmt, held, executed, lock_failed>>

memory_vars == <<physical_initramfs_area, INITRAMFS_AREA, memory_pc>>

exec_vars == <<syscall_result, exec_result>>

kernel_vars == <<boot_pc, magic_number, BOOT_METHOD, init_called, information_structure,
                 interrupts_enabled, task_priority, handlers, returned>>

stack_vars == <<stack, address_space, segments, page_table, stack_pc, stack_failed,
                stack_ops, stack_call>>

sched_vars == <<tcbs, READY_LIST, CURRENT_THREAD, OLD_THREAD, PROCESS_LIST, pc, failed,
                cpu_stack, preemption, preemption_state, created, pcb_drops, pre, last_step>>

\* What the scheduler, the memory-map filter and the stack leave alone.
beside_sched == <<filter_vars, stack_vars, kernel_vars, exec_vars, memory_vars, lock_vars>>

beside_filter == <<sched_vars, stack_vars, kernel_vars, exec_vars, memory_vars, lock_vars>>

beside_stack == <<sched_vars, filter_vars, kernel_vars, exec_vars, memory_vars, lock_vars>>

\* What the boot entry and the interrupt handlers leave alone.
beside_kernel == <<sched_vars, filter_vars, stack_vars, exec_vars, memory_vars, lock_vars>>

\* What the memory initialization leaves alone.
beside_memory == <<sched_vars, filter_vars, stack_vars, kernel_vars, exec_vars, lock_vars>>

\* What the statements of schedule_next_thread leave alone, their effect on the
\* threads being left to the scheduler above.
beside_locks == <<sched_vars, filter_vars, stack_vars, kernel_vars, exec_vars, memory_vars>>

\* What the exec wrapper leaves alone.
beside_exec == <<sched_vars, filter_vars, stack_vars, kernel_vars, memory_vars, lock_vars>>

\* Option::None of the OLD_THREAD slot.
None == -1

IdleThread == 0
IdleProcess == 0
IdlePriority == 0

ThreadIds == 0..MaxThreads
ProcessIds == 0..MaxProcesses

\* ---------------------------------------------------------------- the TCB

\* The comparison of two TCBs, `a >= b`: "it has at least the same priority".
TcbGe(a, b) == tcbs[a].priority >= tcbs[b].priority

\* PCB::is_dead
pcb_is_dead(p) == PROCESS_LIST[p].state = "Dead"

\* An is_droppable that lets every PCB go.
C21_AlwaysDroppable(p) == p \in DOMAIN PROCESS_LIST

\* PCB::is_droppable
is_droppable(p) == PROCESS_LIST[p].thread_count = 0

\* TCB::is_dead: the thread was marked dead, or its process was killed.
is_dead(t) == tcbs[t].state = "Dead" \/ pcb_is_dead(tcbs[t].pid)

\* BinaryHeap::peek: the greatest elements of the heap (one of them is on top).
peek == {t \in READY_LIST : \A u \in READY_LIST : TcbGe(t, u)}

\* The decision with its condition grouped the way the claim groups it.
C1_NeededAsClaimed ==
    READY_LIST # {} /\ ((\E t \in peek : TcbGe(t, CURRENT_THREAD)) \/ is_dead(CURRENT_THREAD))

\* The decision without its last line: a dead current thread does not count.
C3_NeededNoDead == READY_LIST # {} /\ \E t \in peek : TcbGe(t, CURRENT_THREAD)

\* The decision with a strict comparison: equal priority does not preempt.
C4_NeededStrict ==
    \/ READY_LIST # {} /\ \E t \in peek : ~TcbGe(CURRENT_THREAD, t)
    \/ is_dead(CURRENT_THREAD)

\* The decision of schedule_next_thread.
schedule_needed ==
    LET there_is_another == READY_LIST # {}
        at_least_same == there_is_another /\ \E t \in peek : TcbGe(t, CURRENT_THREAD)
    IN  at_least_same \/ is_dead(CURRENT_THREAD)

\* Dropping a TCB takes it out of its process: thread_count goes down by one, and
\* a dead process whose last thread this was is removed from PROCESS_LIST, which
\* drops the PCB (Drop for PCB asserts is_droppable).
ProcessListAfterDrop(t) ==
    LET p == tcbs[t].pid
        counted == [PROCESS_LIST EXCEPT ![p].thread_count = @ - 1]
    IN  IF counted[p].thread_count = 0 /\ counted[p].state = "Dead"
        THEN [q \in DOMAIN PROCESS_LIST \ {p} |-> counted[q]]
        ELSE counted

PcbDroppedWith(t) == tcbs[t].pid \notin DOMAIN ProcessListAfterDrop(t)

\* ------------------------------------------------------------ the actions

NoPre == [ready |-> {}, current |-> None, dead |-> FALSE, preemption |-> TRUE]

\* A pop that takes any thread of the heap, not a greatest one.
C2_PopAny == READY_LIST

\* ready_list.pop(), line 50: the heap gives up one of its greatest elements.
pop == peek

\* The swap that drops a dead old thread at once, before switch_context.
C7_DropAtSwap(old, next) ==
    LET set == [tcbs EXCEPT ![old].state = IF is_dead(old) THEN @ ELSE "Ready",
                            ![next].state = "Running"]
    IN  IF is_dead(old) THEN [t \in DOMAIN tcbs \ {old} |-> set[t]] ELSE set

\* Lines 56-66: after the swap the old thread is set ready unless it is dead, and
\* the new thread is set running; no TCB is dropped here.
TcbsAfterSwap(old, next) ==
    [tcbs EXCEPT ![old].state = IF is_dead(old) THEN @ ELSE "Ready",
                 ![next].state = "Running"]

\* after_context_switch without the check of line 85: the old thread is kept.
C6_NeverDrops == FALSE

\* after_context_switch that drops the old thread whether it is dead or not.
C28_DropsAlways == TRUE

\* Line 85: after the switch a dead old thread is dropped, a live one kept.
DropsOld == is_dead(OLD_THREAD)

\* A push that loses the TCB it was given.
C27_PushLoses == READY_LIST

\* Lines 91-93: READY_LIST.lock().push(OLD_THREAD.as_mut().take().unwrap())
ReadyListAfterPush == READY_LIST \cup {OLD_THREAD}

\* A take() that leaves the TCB in the slot.
C8_TakeLeaves == OLD_THREAD

\* Lines 87 and 93: OLD_THREAD.as_mut().take() leaves None in the slot.
OldThreadAfterTake == None

SchedInit ==
    /\ tcbs = [t \in {IdleThread} |->
                 [pid |-> IdleProcess, priority |-> IdlePriority, state |-> "Running"]]
    /\ READY_LIST = {}
    /\ CURRENT_THREAD = IdleThread
    /\ OLD_THREAD = None
    /\ PROCESS_LIST = [p \in {IdleProcess} |-> [thread_count |-> 1, state |-> "Active"]]
    /\ pc = "run"
    /\ failed = "none"
    /\ cpu_stack = IdleThread
    /\ preemption = TRUE
    /\ preemption_state = [t \in ThreadIds |-> TRUE]
    /\ created = [threads |-> 0, processes |-> 0]
    /\ pcb_drops = [p \in ProcessIds |-> 0]
    /\ pre = NoPre
    /\ last_step = "none"

\* schedule_next_thread, lines 30-66 and 73-78: the entry, the decision and, when a
\* switch is needed, everything up to the call of switch_context.
ScheduleStep ==
    /\ pc = "run" /\ failed = "none"
    /\ pre' = [ready |-> READY_LIST, current |-> CURRENT_THREAD,
               dead |-> is_dead(CURRENT_THREAD), preemption |-> preemption]
    /\ IF OLD_THREAD # None
       THEN \* debug_assert!(OLD_THREAD.is_none())
            /\ failed' = "old_thread_assert"
            /\ preemption' = FALSE
            /\ UNCHANGED <<tcbs, READY_LIST, CURRENT_THREAD, OLD_THREAD, pc,
                           preemption_state, last_step>>
       ELSE IF ~schedule_needed
       THEN \* drop(ready_list); restore_preemption_state(&preemption_state)
            /\ last_step' = "noswitch"
            /\ UNCHANGED <<tcbs, READY_LIST, CURRENT_THREAD, OLD_THREAD, pc, failed,
                           preemption, preemption_state>>
       ELSE IF READY_LIST = {}
       THEN \* ready_list.pop().unwrap() on an empty heap
            /\ failed' = "pop_unwrap"
            /\ preemption' = FALSE
            /\ UNCHANGED <<tcbs, READY_LIST, CURRENT_THREAD, OLD_THREAD, pc,
                           preemption_state, last_step>>
       ELSE \E next \in pop :
            LET old == CURRENT_THREAD IN
            /\ READY_LIST' = READY_LIST \ {next}
            /\ CURRENT_THREAD' = next
            /\ tcbs' = TcbsAfterSwap(old, next)
            /\ OLD_THREAD' = IF old \in DOMAIN tcbs' THEN old ELSE None
            /\ preemption' = FALSE
            /\ preemption_state' = [preemption_state EXCEPT ![old] = preemption]
            /\ pc' = "switch"
            /\ UNCHANGED <<failed, last_step>>
    /\ UNCHANGED <<PROCESS_LIST, cpu_stack, created, pcb_drops>>
    /\ UNCHANGED beside_sched

\* schedule_next_thread as the schedule interrupt calls it: the interrupt is
\* delivered while preemption is enabled.
schedule_next_thread == preemption /\ ScheduleStep

\* schedule_next_thread called directly, by code that has disabled preemption.
call_schedule_next_thread == ~preemption /\ ScheduleStep

\* sync::disable_preemption and sync::enable_preemption (scheduler.rs:8 and 108),
\* called by the running thread.
set_preemption ==
    /\ pc = "run" /\ failed = "none"
    /\ preemption' = ~preemption
    /\ last_step' = "preemption"
    /\ UNCHANGED <<tcbs, READY_LIST, CURRENT_THREAD, OLD_THREAD, PROCESS_LIST, pc, failed,
                   cpu_stack, preemption_state, created, pcb_drops, pre>>
    /\ UNCHANGED beside_sched

\* A restore that takes the state the last call of schedule_next_thread saved.
C24_RestoresLastSaved == pre.preemption

\* Line 78, reached by the thread that is resumed: the preemption state that
\* thread saved at line 32 is restored.
RestoredPreemptionState == preemption_state[CURRENT_THREAD]

\* switch_context, lines 69-70: the CPU leaves the stack of the old thread.
switch_context ==
    /\ pc = "switch" /\ failed = "none"
    /\ cpu_stack' = CURRENT_THREAD
    /\ pc' = "after"
    /\ UNCHANGED <<tcbs, READY_LIST, CURRENT_THREAD, OLD_THREAD, PROCESS_LIST, failed,
                   preemption, preemption_state, created, pcb_drops, pre, last_step>>
    /\ UNCHANGED beside_sched

\* after_context_switch, lines 83-98, run by the thread switched to, and the
\* restore_preemption_state of line 78 that follows it.
after_context_switch ==
    /\ pc = "after" /\ failed = "none"
    /\ IF OLD_THREAD = None
       THEN UNCHANGED <<tcbs, READY_LIST, OLD_THREAD, PROCESS_LIST, pcb_drops>>
       ELSE IF DropsOld
       THEN \* OLD_THREAD.as_mut().take(): the TCB is dropped
            /\ tcbs' = [t \in DOMAIN tcbs \ {OLD_THREAD} |-> tcbs[t]]
            /\ PROCESS_LIST' = ProcessListAfterDrop(OLD_THREAD)
            /\ pcb_drops' = IF PcbDroppedWith(OLD_THREAD)
                            THEN [pcb_drops EXCEPT ![tcbs[OLD_THREAD].pid] = @ + 1]
                            ELSE pcb_drops
            /\ OLD_THREAD' = OldThreadAfterTake
            /\ UNCHANGED READY_LIST
       ELSE \* READY_LIST.lock().push(OLD_THREAD.as_mut().take().unwrap())
            /\ READY_LIST' = ReadyListAfterPush
            /\ OLD_THREAD' = OldThreadAfterTake
            /\ UNCHANGED <<tcbs, PROCESS_LIST, pcb_drops>>
    /\ preemption' = RestoredPreemptionState
    /\ pc' = "run"
    /\ last_step' = "switched"
    /\ UNCHANGED <<CURRENT_THREAD, failed, cpu_stack, preemption_state, created, pre>>
    /\ UNCHANGED beside_sched

\* PCB::kill, pcb.rs lines 60-65.
kill(p) ==
    /\ failed = "none"
    /\ p \in DOMAIN PROCESS_LIST
    /\ PROCESS_LIST[p].state = "Active"
    /\ PROCESS_LIST' = [PROCESS_LIST EXCEPT ![p].state = "Dead"]
    /\ UNCHANGED <<tcbs, READY_LIST, CURRENT_THREAD, OLD_THREAD, pc, failed, cpu_stack,
                   preemption, preemption_state, created, pcb_drops, pre, last_step>>
    /\ UNCHANGED beside_sched

KillProcess == \E p \in DOMAIN PROCESS_LIST \ {IdleProcess} : kill(p)

KillIdleProcess == kill(IdleProcess)

\* Drop for PCB, pcb.rs lines 29-33, when the owner of PROCESS_LIST removes the
\* entry of a process: assert!(self.is_droppable()) panics for a PCB that still
\* counts threads.
DropProcess ==
    /\ pc = "run" /\ failed = "none"
    /\ \E p \in DOMAIN PROCESS_LIST :
         IF is_droppable(p)
         THEN /\ PROCESS_LIST' = [q \in DOMAIN PROCESS_LIST \ {p} |-> PROCESS_LIST[q]]
              /\ pcb_drops' = [pcb_drops EXCEPT ![p] = @ + 1]
              /\ UNCHANGED failed
         ELSE /\ failed' = "pcb_drop_assert"
              /\ UNCHANGED <<PROCESS_LIST, pcb_drops>>
    /\ UNCHANGED <<tcbs, READY_LIST, CURRENT_THREAD, OLD_THREAD, pc, cpu_stack,
                   preemption, preemption_state, created, pre, last_step>>
    /\ UNCHANGED beside_sched

\* The running thread ends itself: its TCB is marked dead.
ExitThread ==
    /\ pc = "run" /\ failed = "none"
    /\ CURRENT_THREAD # IdleThread
    /\ tcbs[CURRENT_THREAD].state = "Running"
    /\ tcbs' = [tcbs EXCEPT ![CURRENT_THREAD].state = "Dead"]
    /\ UNCHANGED <<READY_LIST, CURRENT_THREAD, OLD_THREAD, PROCESS_LIST, pc, failed,
                   cpu_stack, preemption, preemption_state, created, pcb_drops, pre,
                   last_step>>
    /\ UNCHANGED beside_sched

\* A new thread enters READY_LIST.
PushNewThread(p, prio, processes) ==
    LET t == created.threads + 1 IN
    /\ tcbs' = [u \in DOMAIN tcbs \cup {t} |->
                  IF u = t THEN [pid |-> p, priority |-> prio, state |-> "Ready"]
                  ELSE tcbs[u]]
    /\ READY_LIST' = READY_LIST \cup {t}
    /\ created' = [threads |-> t, processes |-> processes]

\* PCB::new, lines 37-44: a process is created with its first thread.
CreateProcess ==
    /\ pc = "run" /\ failed = "none"
    /\ created.threads < MaxThreads /\ created.processes < MaxProcesses
    /\ \E prio \in 1..MaxPriority :
         LET p == created.processes + 1 IN
         /\ PROCESS_LIST' = [q \in DOMAIN PROCESS_LIST \cup {p} |->
                               IF q = p THEN [thread_count |-> 1, state |-> "Active"]
                               ELSE PROCESS_LIST[q]]
         /\ PushNewThread(p, prio, p)
    /\ UNCHANGED <<CURRENT_THREAD, OLD_THREAD, pc, failed, cpu_stack, preemption,
                   preemption_state, pcb_drops, pre, last_step>>
    /\ UNCHANGED beside_sched

\* The running thread starts another thread of its own process.
CreateThread ==
    /\ pc = "run" /\ failed = "none"
    /\ created.threads < MaxThreads
    /\ CURRENT_THREAD # IdleThread
    /\ ~is_dead(CURRENT_THREAD)
    /\ \E prio \in 1..MaxPriority :
         LET p == tcbs[CURRENT_THREAD].pid IN
         /\ PROCESS_LIST' = [PROCESS_LIST EXCEPT ![p].thread_count = @ + 1]
         /\ PushNewThread(p, prio, created.processes)
    /\ UNCHANGED <<CURRENT_THREAD, OLD_THREAD, pc, failed, cpu_stack, preemption,
                   preemption_state, pcb_drops, pre, last_step>>
    /\ UNCHANGED beside_sched

\* ------------------------------------------------- the memory-map filter

\* PAGE_SIZE
PAGE_SIZE == 4096

\* MemoryArea::new(start, length)
MemoryArea(start, length) == [start |-> start, length |-> length]

\* MemoryArea::from_start_and_end
from_start_and_end(start, end) == MemoryArea(start, end - start)

start_address(area) == area.start

end_address(area) == area.start + area.length

\* Address::page_align_down
page_align_down(address) == (address \div PAGE_SIZE) * PAGE_SIZE

\* MemoryArea::is_contained_in: the area lies within the other one. Lines 100 and
\* 104 subtract the starts and the ends of two areas this has compared.
is_contained_in(area, other) ==
    /\ start_address(area) >= start_address(other)
    /\ end_address(area) <= end_address(other)

\* initramfs(), lines 21-34: the initramfs area in whole pages.
initramfs ==
    LET area == boot.initramfs_area
        initramfs_start == page_align_down(start_address(area))
        initramfs_length == IF area.length > 0
                            THEN ((area.length - 1) \div PAGE_SIZE) * PAGE_SIZE + PAGE_SIZE
                            ELSE 0
    IN  MemoryArea(initramfs_start, initramfs_length)

\* Iterator::next of the boot loader's map: an Option is a sequence of at most one
\* element, <<>> being None.
iter_next(rest) == IF rest = <<>> THEN <<>> ELSE <<Head(rest)>>

iter_rest(rest) == IF rest = <<>> THEN <<>> ELSE Tail(rest)

\* Lines 54-58: the two areas to exclude, ordered by their start addresses.
to_exclude_of(kernel_area, initramfs_area) ==
    IF start_address(kernel_area) <= start_address(initramfs_area)
    THEN <<kernel_area, initramfs_area>>
    ELSE <<initramfs_area, kernel_area>>

\* MemoryMapIterator::new, lines 50-66.
new ==
    /\ filter_pc = "new"
    /\ iter' = [to_exclude |-> to_exclude_of(boot.kernel_area, initramfs),
                current_entry |-> iter_next(boot.memory_map),
                exclude_index |-> 0,
                multiboot_iterator |-> iter_rest(boot.memory_map),
                consumed |-> 1]
    /\ filter_pc' = "next"
    /\ UNCHANGED <<boot, emitted>>
    /\ UNCHANGED beside_filter

\* Lines 87 and 123: self.current_entry = self.multiboot_iterator.next(); consumed
\* counts the calls of next() on the boot loader's iterator.
Advance(it) ==
    [it EXCEPT !.current_entry = iter_next(it.multiboot_iterator),
               !.multiboot_iterator = iter_rest(it.multiboot_iterator),
               !.consumed = @ + 1]

\* Lines 94-107: the parts of the current entry before and after the excluded area.
entry_before(current_entry, exclude_area) ==
    MemoryArea(start_address(current_entry),
               start_address(exclude_area) - start_address(current_entry))

entry_after(current_entry, exclude_area) ==
    MemoryArea(end_address(exclude_area),
               end_address(current_entry) - end_address(exclude_area))

\* Lines 109-115: the iterator once the excluded area has been handled.
AfterExclude(it, after) ==
    IF end_address(after) = start_address(after)
    THEN [Advance(it) EXCEPT !.exclude_index = it.exclude_index + 1]
    ELSE [it EXCEPT !.exclude_index = it.exclude_index + 1,
                    !.current_entry = <<after>>]

\* Line 90: the next area to exclude lies in the current entry.
Excludes(it) ==
    is_contained_in(it.to_exclude[it.exclude_index + 1], Head(it.current_entry))

\* A next() that asks the boot loader's iterator again when there is no current
\* entry.
C31_EndAsksAgain(it) == [iter |-> Advance(it), item |-> <<>>, continues |-> 0]

\* Lines 127-129: there is no current entry, next() returns None.
AtEnd(it) == [iter |-> it, item |-> <<>>, continues |-> 0]

\* Iterator::next of MemoryMapIterator, lines 75-131: the iterator after the call,
\* the Option it returns and the number of times the loop was repeated (line 118).
RECURSIVE next_of(_)
next_of(it) ==
    IF it.current_entry = <<>>
    THEN AtEnd(it)
    ELSE LET current_entry == Head(it.current_entry) IN
         IF it.exclude_index >= Len(it.to_exclude)
         THEN [iter |-> Advance(it), item |-> <<current_entry>>, continues |-> 0]
         ELSE IF Excludes(it)
         THEN LET exclude_area == it.to_exclude[it.exclude_index + 1]
                  before == entry_before(current_entry, exclude_area)
                  after == entry_after(current_entry, exclude_area)
              IN  IF end_address(before) = start_address(before)
                  THEN [next_of(AfterExclude(it, after)) EXCEPT !.continues = @ + 1]
                  ELSE [iter |-> AfterExclude(it, after), item |-> <<before>>,
                        continues |-> 0]
         ELSE [iter |-> Advance(it), item |-> <<current_entry>>, continues |-> 0]

\* One call of next() by the consumer of the memory map, also after next() has
\* returned None.
next ==
    /\ filter_pc \in {"next", "none"}
    /\ LET call == next_of(iter) IN
       /\ iter' = call.iter
       /\ emitted' = emitted \o call.item
       /\ filter_pc' = IF call.item = <<>> THEN "none" ELSE "next"
    /\ UNCHANGED boot
    /\ UNCHANGED beside_filter

\* The usable areas a boot loader can report: whole pages, not empty.
Areas ==
    UNION {{MemoryArea(a * PAGE_SIZE, (b - a) * PAGE_SIZE) : b \in (a + 1)..MaxPage} :
              a \in 0..MaxPage}

Overlap(a, b) == start_address(a) < end_address(b) /\ start_address(b) < end_address(a)

\* The memory maps: up to MaxAreas areas that do not overlap, in any order the
\* boot loader may list them.
MemoryMaps ==
    {memory_map \in UNION {[1..n -> Areas] : n \in 0..MaxAreas} :
        \A i, j \in 1..Len(memory_map) :
            i # j => ~Overlap(memory_map[i], memory_map[j])}

\* The initramfs as the boot loader reports it: it starts at or one byte into a
\* page and may be empty, one byte, one page or one page and a byte long.
InitramfsAreas ==
    {MemoryArea(p * PAGE_SIZE + off, len) :
        p \in 0..(MaxPage - 1), off \in {0, 1}, len \in {0, 1, PAGE_SIZE, PAGE_SIZE + 1}}

\* The assumptions the NOTE of lines 76-80 lists: the areas to exclude are ordered
\* by their start addresses and do not overlap, the memory areas do not overlap,
\* and each area to exclude lies completely within a memory area.
Preconditions(memory_map, to_exclude) ==
    /\ start_address(to_exclude[1]) <= start_address(to_exclude[2])
    /\ ~Overlap(to_exclude[1], to_exclude[2])
    /\ \A i, j \in 1..Len(memory_map) : i # j => ~Overlap(memory_map[i], memory_map[j])
    /\ \A x \in 1..2 : \E i \in 1..Len(memory_map) :
          is_contained_in(to_exclude[x], memory_map[i])

NoIter == [to_exclude |-> <<>>, current_entry |-> <<>>, exclude_index |-> 0,
           multiboot_iterator |-> <<>>, consumed |-> 0]

NoBoot == [memory_map |-> <<>>, kernel_area |-> MemoryArea(0, 0),
           initramfs_area |-> MemoryArea(0, 0)]

\* The filter is handed any memory map, kernel area and initramfs area that meet
\* its assumptions.
FilterInit ==
    /\ \E memory_map \in MemoryMaps, kernel_area \in Areas, initramfs_area \in InitramfsAreas :
         /\ boot = [memory_map |-> memory_map, kernel_area |-> kernel_area,
                    initramfs_area |-> initramfs_area]
         /\ Preconditions(memory_map, to_exclude_of(kernel_area, initramfs))
    /\ iter = NoIter
    /\ emitted = <<>>
    /\ filter_pc = "new"

\* The filter is handed any memory map, kernel area and initramfs area, whether
\* they meet its assumptions or not: nothing on the way to new() looks at them.
FilterAnyInit ==
    /\ \E memory_map \in MemoryMaps, kernel_area \in Areas, initramfs_area \in InitramfsAreas :
         boot = [memory_map |-> memory_map, kernel_area |-> kernel_area,
                 initramfs_area |-> initramfs_area]
    /\ iter = NoIter
    /\ emitted = <<>>
    /\ filter_pc = "new"

\* The filter is not in use.
FilterIdle ==
    /\ boot = NoBoot
    /\ iter = NoIter
    /\ emitted = <<>>
    /\ filter_pc = "off"

\* ----------------------------------------------------------- the stack

\* usize holds 0..USIZE-1 and isize holds ISIZE_MIN..-ISIZE_MIN-1.
USIZE == StackWordPages * PAGE_SIZE

ISIZE_MIN == -(USIZE \div 2)

\* `u as isize` and `i as usize`
as_isize(u) == IF u >= USIZE \div 2 THEN u - USIZE ELSE u

as_usize(i) == i % USIZE

\* VirtualAddress::page_num
page_num(address) == address \div PAGE_SIZE

Max(a, b) == IF a >= b THEN a ELSE b

Min(a, b) == IF a <= b THEN a ELSE b

\* Lines 103-107 and 131-135: the flags of the pages of a stack.
StackFlags(access_type) ==
    {"READABLE", "WRITABLE"}
        \cup (IF access_type = "UserAccessible" THEN {"USER_ACCESSIBLE"} ELSE {})

\* The result of a call on the stack: the stack, the segments and the page table
\* after it, the panic that ended it if one did, and the pages it has mapped and
\* unmapped, in order.
Machine == [stack |-> stack, segments |-> segments, page_table |-> page_table,
            failed |-> "none", mapped |-> <<>>, unmapped |-> <<>>]

Panic(m, what) == [m EXCEPT !.failed = what]

\* The segments of the address space that hold the page.
SegmentsOf(m, page) ==
    {sg \in m.segments :
        sg.start <= page * PAGE_SIZE /\ page * PAGE_SIZE < sg.start + sg.length}

\* map_fn, lines 143-146: AddressSpace::map_page maps the page with the flags of
\* the segment that holds it (a page of no segment is a fault); without an
\* address space the page is mapped with the flags given.
map_fn(m, page, flags) ==
    IF m.failed # "none" THEN m
    ELSE IF address_space /\ SegmentsOf(m, page) = {} THEN Panic(m, "page_fault")
    ELSE LET used == IF address_space
                     THEN (CHOOSE sg \in SegmentsOf(m, page) : TRUE).flags
                     ELSE flags
         IN  [m EXCEPT !.page_table = (page :> [flags |-> used, by |-> "stack"]) @@ @,
                       !.mapped = Append(@, page)]

\* unmap_fn, lines 169-174: the page is taken out of the page table.
unmap_fn(m, page) ==
    IF m.failed # "none" THEN m
    ELSE [m EXCEPT !.page_table = [q \in DOMAIN @ \ {page} |-> @[q]],
                   !.unmapped = Append(@, page)]

\* Lines 148-150: for page_num in first_page_to_map..last_page_to_map
RECURSIVE MapRange(_, _, _, _)
MapRange(m, first, last, flags) ==
    IF first >= last THEN m
    ELSE MapRange(map_fn(m, first, flags), first + 1, last, flags)

\* A loop over the pages to unmap that unmaps none.
C32_UnmapsNothing(m, first, last) == m

\* Lines 176-178: for page_num in first_page_to_unmap..last_page_to_unmap
RECURSIVE UnmapRange(_, _, _)
UnmapRange(m, first, last) ==
    IF first >= last THEN m
    ELSE UnmapRange(unmap_fn(m, first), first + 1, last)

\* A grow that lowers the bottom by the amount without the max of lines 126-129.
C12_GrowUnclamped(m, amount) ==
    LET s == m.stack IN
    IF m.failed # "none" THEN m
    ELSE IF amount > s.bottom_address THEN Panic(m, "address_wrap")
    ELSE LET new_bottom == s.bottom_address - amount
             done == MapRange(m, page_num(new_bottom), page_num(s.bottom_address),
                              StackFlags(s.access_type))
         IN  IF done.failed # "none" THEN done
             ELSE [done EXCEPT !.stack.bottom_address = new_bottom]

\* Stack::grow, lines 123-156. An address less an amount greater than it is a wrap
\* of the address, which is fatal.
grow_of(m, amount) ==
    LET s == m.stack IN
    IF m.failed # "none" THEN m
    ELSE IF s.max_size > s.top_address \/ amount > s.bottom_address
    THEN Panic(m, "address_wrap")
    ELSE LET new_bottom == Max(s.top_address - s.max_size, s.bottom_address - amount)
             flags == StackFlags(s.access_type)
             first_page_to_map == page_num(new_bottom)
             last_page_to_map == page_num(s.bottom_address)
             done == MapRange(m, first_page_to_map, last_page_to_map, flags)
         IN  IF done.failed # "none" THEN done
             ELSE [done EXCEPT !.stack.bottom_address = new_bottom]

\* Stack::shrink, lines 159-184. An address plus an amount that leaves usize is a
\* wrap of the address, which is fatal.
shrink_of(m, amount) ==
    LET s == m.stack IN
    IF m.failed # "none" THEN m
    ELSE IF s.bottom_address + amount >= USIZE
    THEN Panic(m, "address_wrap")
    ELSE LET new_bottom == Min(s.top_address, s.bottom_address + amount)
             first_page_to_unmap == page_num(s.bottom_address)
             last_page_to_unmap == page_num(new_bottom)
             done == UnmapRange(m, first_page_to_unmap, last_page_to_unmap)
         IN  [done EXCEPT !.stack.bottom_address = new_bottom]

\* Lines 192-196: the stack grows by a difference > 0 and shrinks by the negated
\* difference otherwise; negating the least isize overflows, which panics in a
\* build that checks overflow and wraps in one that does not.
resize_by(m, difference) ==
    IF difference > 0 THEN {grow_of(m, difference)}
    ELSE IF difference = ISIZE_MIN
    THEN {Panic(m, "isize_overflow"), shrink_of(m, as_usize(ISIZE_MIN))}
    ELSE {shrink_of(m, -difference)}

\* Stack::resize, lines 187-197: the outcomes of the call. The difference of the
\* two isize values may leave isize, which panics in a build that checks
\* overflow and wraps in one that does not.
resize_of(m, new_size) ==
    LET s == m.stack
        current_size == as_isize(s.top_address - s.bottom_address)
        difference == as_isize(new_size) - current_size
    IN  IF m.failed # "none" THEN {m}
        ELSE IF s.bottom_address > s.top_address THEN {Panic(m, "address_wrap")}
        ELSE IF difference < ISIZE_MIN
        THEN {Panic(m, "isize_overflow")} \cup resize_by(m, difference + USIZE)
        ELSE resize_by(m, difference)

\* Lines 91-98: the stack Stack::new constructs, of size zero.
NewStack(max_size, start, access_type) ==
    [top_address |-> start + max_size,
     bottom_address |-> start + max_size,
     max_size |-> max_size,
     base_stack_pointer |-> start + max_size,
     access_type |-> access_type]

\* A segment whose flags are R|W for every stack: lines 105-107 are left out.
C16_SegmentNeverUser(max_size, start, access_type) ==
    [start |-> start, length |-> max_size,
     flags |-> {"READABLE", "WRITABLE"}, kind |-> "MemoryOnly"]

\* Lines 103-112: the segment Stack::new registers for the stack.
StackSegment(max_size, start, access_type) ==
    [start |-> start, length |-> max_size,
     flags |-> StackFlags(access_type), kind |-> "MemoryOnly"]

\* AddressSpace::add_segment returns false if the segment overlaps an existing
\* segment, and inserts it otherwise.
SegmentsOverlap(a, b) == a.start < b.start + b.length /\ b.start < a.start + a.length

add_segment(existing, segment) == \A sg \in existing : ~SegmentsOverlap(sg, segment)

NoStack == [top_address |-> 0, bottom_address |-> 0, max_size |-> 0,
            base_stack_pointer |-> 0, access_type |-> "KernelOnly"]

NoCall == [op |-> "none", amount |-> 0,
           args |-> [max_size |-> 0, start |-> 0, access_type |-> "KernelOnly"],
           before |-> NoStack, table |-> <<>>, mapped |-> <<>>, unmapped |-> <<>>,
           map_calls |-> 0, unmap_calls |-> 0]

\* The call that has led to the machine m; map_calls and unmap_calls count the
\* pages mapped and unmapped since the stack was created.
Call(op, amount, m) ==
    [op |-> op, amount |-> amount, args |-> stack_call.args, before |-> stack,
     table |-> page_table, mapped |-> m.mapped, unmapped |-> m.unmapped,
     map_calls |-> stack_call.map_calls + Len(m.mapped),
     unmap_calls |-> stack_call.unmap_calls + Len(m.unmapped)]

\* The amounts and sizes a caller passes: whole pages, a byte more or less, and
\* amounts at the middle and at the end of usize.
StackAmounts ==
    {k * PAGE_SIZE : k \in 0..MaxStackPages}
        \cup {1, PAGE_SIZE - 1, PAGE_SIZE + 1}
        \cup {USIZE \div 2, USIZE \div 2 + PAGE_SIZE, USIZE - PAGE_SIZE, USIZE - 1}

StackSizes == {k * PAGE_SIZE : k \in 1..MaxStackPages}

\* Stacks lie in the lower half of the addresses (user stacks) or in the upper
\* half (kernel stacks).
StackStarts == {PAGE_SIZE, (page_num(USIZE \div 2) + 1) * PAGE_SIZE}

AccessTypes == {"UserAccessible", "KernelOnly"}

\* A segment of one page that the address space holds before the stack is
\* created; its page is mapped.
OtherSegments ==
    {[start |-> a * PAGE_SIZE, length |-> PAGE_SIZE, flags |-> {"READABLE"},
      kind |-> "FileBacked"] : a \in 0..(MaxStackPages + 1)}

\* Before Stack::new: an address space with at most one segment, or none.
StackInit ==
    /\ stack = NoStack
    /\ address_space \in BOOLEAN
    /\ segments \in {{}} \cup (IF address_space THEN {{sg} : sg \in OtherSegments} ELSE {})
    /\ page_table = [q \in {page_num(sg.start) : sg \in segments} |->
                        [flags |-> {"READABLE"}, by |-> "other"]]
    /\ stack_pc = "new"
    /\ stack_failed = "none"
    /\ stack_ops = 0
    /\ stack_call = NoCall

\* No stack is in use.
StackIdle ==
    /\ stack = NoStack
    /\ address_space = FALSE
    /\ segments = {}
    /\ page_table = <<>>
    /\ stack_pc = "off"
    /\ stack_failed = "none"
    /\ stack_ops = 0
    /\ stack_call = NoCall

\* Stack::new, lines 84-115: the stack is constructed and its segment is added to
\* the address space, if there is one.
Stack_new ==
    /\ stack_pc = "new" /\ stack_failed = "none"
    /\ \E initial_size \in StackAmounts, max_size \in StackSizes,
          start \in StackStarts, access_type \in AccessTypes :
         LET segment == StackSegment(max_size, start, access_type) IN
         /\ stack_call' = [NoCall EXCEPT !.op = "new", !.amount = initial_size,
                                          !.args = [max_size |-> max_size, start |-> start,
                                                    access_type |-> access_type]]
         /\ IF start + max_size >= USIZE
            THEN /\ stack_failed' = "address_wrap"
                 /\ UNCHANGED <<stack, segments, stack_pc>>
            ELSE IF address_space /\ ~add_segment(segments, segment)
            THEN \* assert!(address_space.add_segment(..), "Could not add stack segment.")
                 /\ stack_failed' = "segment_assert"
                 /\ UNCHANGED <<stack, segments, stack_pc>>
            ELSE /\ stack' = NewStack(max_size, start, access_type)
                 /\ segments' = IF address_space THEN segments \cup {segment} ELSE segments
                 /\ stack_pc' = "resize"
                 /\ UNCHANGED stack_failed
    /\ UNCHANGED <<address_space, page_table, stack_ops>>
    /\ UNCHANGED beside_stack

\* The state after a call that has led to the machine m.
Returns(op, amount, m) ==
    /\ stack' = m.stack
    /\ page_table' = m.page_table
    /\ stack_failed' = m.failed
    /\ stack_call' = Call(op, amount, m)
    /\ UNCHANGED <<address_space, segments>>
    /\ UNCHANGED beside_stack

\* Stack::new, lines 117-119: stack.resize(initial_size, address_space)
Stack_new_resize ==
    /\ stack_pc = "resize" /\ stack_failed = "none"
    /\ \E m \in resize_of(Machine, stack_call.amount) :
          Returns("new", stack_call.amount, m)
    /\ stack_pc' = "live"
    /\ UNCHANGED stack_ops

Stack_grow ==
    /\ stack_pc = "live" /\ stack_failed = "none" /\ stack_ops < MaxStackOps
    /\ \E amount \in StackAmounts : Returns("grow", amount, grow_of(Machine, amount))
    /\ stack_ops' = stack_ops + 1
    /\ UNCHANGED stack_pc

Stack_shrink ==
    /\ stack_pc = "live" /\ stack_failed = "none" /\ stack_ops < MaxStackOps
    /\ \E amount \in StackAmounts : Returns("shrink", amount, shrink_of(Machine, amount))
    /\ stack_ops' = stack_ops + 1
    /\ UNCHANGED stack_pc

Stack_resize ==
    /\ stack_pc = "live" /\ stack_failed = "none" /\ stack_ops < MaxStackOps
    /\ \E new_size \in StackAmounts : \E m \in resize_of(Machine, new_size) :
          Returns("resize", new_size, m)
    /\ stack_ops' = stack_ops + 1
    /\ UNCHANGED stack_pc

\* Drop for Stack, lines 57-62: self.resize(0, None)
Stack_drop ==
    /\ stack_pc = "live" /\ stack_failed = "none"
    /\ \E m \in resize_of(Machine, 0) : Returns("drop", 0, m)
    /\ stack_pc' = "dropped"
    /\ UNCHANGED stack_ops

\* ------------------------------------------- boot entry and interrupts

\* boot/mod.rs:156-157: the magic numbers of the two boot protocols.
MULTIBOOT2_MAGIC == 920085129
MULTIBOOT_MAGIC == 732803074

\* The magic numbers a loader may pass: the two known ones, their neighbours, the
\* magic number of the protocol-1 header (0x1BADB002), zero and 0x7FFFFFFF.
MagicNumbers ==
    {MULTIBOOT_MAGIC, MULTIBOOT2_MAGIC, MULTIBOOT_MAGIC + 1, MULTIBOOT2_MAGIC - 1,
     464367618, 0, 2147483647}

\* Both arms of the match exchanged.
C20_MethodsExchanged(magic) ==
    CASE magic = MULTIBOOT2_MAGIC -> "Multiboot"
      [] magic = MULTIBOOT_MAGIC -> "Multiboot2"
      [] OTHER -> "Unknown"

\* boot/mod.rs:153-161.
set_boot_method(magic) ==
    CASE magic = MULTIBOOT2_MAGIC -> "Multiboot2"
      [] magic = MULTIBOOT_MAGIC -> "Multiboot"
      [] OTHER -> "Unknown"

\* interrupts/mod.rs:50 and 94: the task priority of a running handler (0x20).
RAISED_PRIORITY == 32

\* An envelope that signals EOI before it disables interrupts.
C19_EoiBeforeDisable(content) ==
    <<"get_priority", "set_priority", "enable", content, "signal_eoi", "disable",
      "restore_priority">>

\* interrupts/mod.rs:45-64: the statements of an IRQ envelope around its content.
irq_interrupt(content) ==
    <<"get_priority", "set_priority", "enable", content, "disable", "signal_eoi",
      "restore_priority">>

\* interrupts/mod.rs:106-110.
timer_handler == irq_interrupt("timer_interrupt")

\* interrupts/mod.rs:112-118.
irq1_handler == irq_interrupt("keyboard_interrupt")

\* A schedule handler that signals EOI after schedule_next_thread.
C17_EoiAfterScheduling ==
    <<"set_priority", "schedule_next_thread", "signal_eoi", "disable", "reset_priority">>

\* interrupts/mod.rs:93-101: the statements of the schedule-interrupt handler.
schedule_interrupt ==
    <<"set_priority", "signal_eoi", "schedule_next_thread", "disable", "reset_priority">>

\* The entries idt.interrupts[0], [1] and [2].
TimerVector == 0
Irq1Vector == 1
ScheduleVector == 2
Vectors == {TimerVector, Irq1Vector, ScheduleVector}
DeviceVectors == {TimerVector, Irq1Vector}

\* interrupts/mod.rs:23-25: an entry disables interrupts on entry unless
\* disable_interrupts(false) was applied to it.
IDT ==
    [v \in Vectors |->
        CASE v = TimerVector -> [handler_fn |-> timer_handler, disable_interrupts |-> TRUE]
          [] v = Irq1Vector -> [handler_fn |-> irq1_handler, disable_interrupts |-> TRUE]
          [] v = ScheduleVector ->
                [handler_fn |-> schedule_interrupt, disable_interrupts |-> FALSE]]

NoHandler ==
    [vector |-> -1, next |-> 1, old_priority |-> 0, flags |-> FALSE,
     entry_priority |-> 0, done |-> <<>>, eoi_flags |-> <<>>, exit_priority |-> 0]

\* The innermost handler and the statement it executes next.
Top == handlers[Len(handlers)]

Statements(h) == IDT[h.vector].handler_fn

Statement(h) == Statements(h)[h.next]

KernelInit ==
    /\ boot_pc = "loader"
    /\ magic_number = 0
    /\ BOOT_METHOD = "Unknown"
    /\ init_called = FALSE
    /\ information_structure = "unread"
    /\ interrupts_enabled = FALSE
    /\ task_priority = 0
    /\ handlers = <<>>
    /\ returned = NoHandler

\* veos.rs:34-35 with boot/mod.rs:140-150: main calls boot::init, which sets the
\* boot method and lets the parser of that method read the information
\* structure; unimplemented!() panics, and panic_fmt (veos.rs:58-63) loops.
main ==
    /\ boot_pc = "loader"
    /\ \E magic \in MagicNumbers :
         LET method == set_boot_method(magic) IN
         /\ magic_number' = magic
         /\ init_called' = TRUE
         /\ BOOT_METHOD' = method
         /\ information_structure' =
               CASE method = "Multiboot2" -> "multiboot2"
                 [] method = "Multiboot" -> "multiboot"
                 [] OTHER -> information_structure
         /\ boot_pc' = IF method = "Unknown" THEN "stopped" ELSE "booting"
    /\ UNCHANGED <<interrupts_enabled, task_priority, handlers, returned>>
    /\ UNCHANGED beside_kernel

\* veos.rs:36-43: main initializes the output, prints the memory map and loops.
main_continues ==
    /\ boot_pc = "booting"
    /\ boot_pc' = "booted"
    /\ UNCHANGED <<magic_number, BOOT_METHOD, init_called, information_structure,
                   interrupts_enabled, task_priority, handlers, returned>>
    /\ UNCHANGED beside_kernel

\* boot/mod.rs:140-141: a further call of boot::init fails its assertion before
\* it sets the boot method.
init_again ==
    /\ boot_pc = "booted"
    /\ init_called
    /\ boot_pc' = "stopped"
    /\ UNCHANGED <<magic_number, BOOT_METHOD, init_called, information_structure,
                   interrupts_enabled, task_priority, handlers, returned>>
    /\ UNCHANGED beside_kernel

\* The end of the boot sequence: interrupts are enabled.
EnableInterrupts ==
    /\ boot_pc = "booted"
    /\ boot_pc' = "running"
    /\ interrupts_enabled' = TRUE
    /\ UNCHANGED <<magic_number, BOOT_METHOD, init_called, information_structure,
                   task_priority, handlers, returned>>
    /\ UNCHANGED beside_kernel

\* The CPU enters the handler of a vector: the interrupt flag is saved in the
\* frame and cleared if the entry disables interrupts.
Enter(v) ==
    /\ handlers' = Append(handlers,
                          [vector |-> v, next |-> 1, old_priority |-> 0,
                           flags |-> interrupts_enabled, entry_priority |-> task_priority,
                           done |-> <<>>, eoi_flags |-> <<>>])
    /\ interrupts_enabled' = (interrupts_enabled /\ ~IDT[v].disable_interrupts)
    /\ UNCHANGED <<boot_pc, magic_number, BOOT_METHOD, init_called, information_structure,
                   task_priority, returned>>
    /\ UNCHANGED beside_kernel

\* A timer or keyboard interrupt is delivered: interrupts are enabled and the
\* task priority does not mask device interrupts.
DeviceInterrupt ==
    /\ boot_pc = "running"
    /\ interrupts_enabled
    /\ task_priority < RAISED_PRIORITY
    /\ Len(handlers) < MaxNesting
    /\ \E v \in DeviceVectors : Enter(v)

\* arch/x86_64/mod.rs:111-113: schedule() issues the schedule interrupt to this
\* CPU; thread code and the timer tick call it.
schedule ==
    /\ boot_pc = "running"
    /\ interrupts_enabled
    /\ Len(handlers) < MaxNesting
    /\ \/ handlers = <<>>
       \/ /\ handlers # <<>>
          /\ Top.vector = TimerVector
          /\ Top.next <= Len(Statements(Top))
          /\ Statement(Top) = "timer_interrupt"
    /\ Enter(ScheduleVector)

\* The innermost handler executes its next statement.
ExecuteStatement ==
    /\ handlers # <<>>
    /\ Top.next <= Len(Statements(Top))
    /\ LET h == Top
           statement == Statement(h)
           after == [h EXCEPT !.next = h.next + 1,
                              !.done = Append(h.done, statement),
                              !.old_priority = IF statement = "get_priority"
                                               THEN task_priority ELSE h.old_priority,
                              !.eoi_flags = IF statement = "signal_eoi"
                                            THEN Append(h.eoi_flags, interrupts_enabled)
                                            ELSE h.eoi_flags]
       IN  /\ handlers' = [handlers EXCEPT ![Len(handlers)] = after]
           /\ task_priority' =
                 CASE statement = "set_priority" -> RAISED_PRIORITY
                   [] statement = "restore_priority" -> h.old_priority
                   [] statement = "reset_priority" -> 0
                   [] OTHER -> task_priority
           /\ interrupts_enabled' =
                 CASE statement = "enable" -> TRUE
                   [] statement = "disable" -> FALSE
                   [] OTHER -> interrupts_enabled
    /\ UNCHANGED <<boot_pc, magic_number, BOOT_METHOD, init_called, information_structure,
                   returned>>
    /\ UNCHANGED beside_kernel

\* The innermost handler returns: the interrupt flag it was entered with is
\* restored.
ReturnFromInterrupt ==
    /\ handlers # <<>>
    /\ Top.next > Len(Statements(Top))
    /\ returned' = [vector |-> Top.vector, next |-> Top.next,
                    old_priority |-> Top.old_priority, flags |-> Top.flags,
                    entry_priority |-> Top.entry_priority, done |-> Top.done,
                    eoi_flags |-> Top.eoi_flags, exit_priority |-> task_priority]
    /\ handlers' = SubSeq(handlers, 1, Len(handlers) - 1)
    /\ interrupts_enabled' = Top.flags
    /\ UNCHANGED <<boot_pc, magic_number, BOOT_METHOD, init_called, information_structure,
                   task_priority>>
    /\ UNCHANGED beside_kernel

\* ------------------------------------ the locks of schedule_next_thread

\* A statement of schedule_next_thread or after_context_switch: what it does, to
\* which lock, and its line in scheduler.rs. A lock taken within an expression
\* is released at the end of the statement of that expression.
Stmt(op, on, line) == [op |-> op, on |-> on, line |-> line]

WithLock(on, op, line) ==
    <<Stmt("lock", on, line), Stmt(op, on, line), Stmt("unlock", on, line)>>

\* The decision of lines 41-45 on the path p.
PathNeeded(p) == (p.ready_some /\ p.top_ge) \/ p.current_dead

\* after_context_switch, lines 83-98, called in line 72.
AfterSwitchStatements(p) ==
    IF p.old_dead
    THEN <<Stmt("take", "OLD_THREAD", 87)>>
    ELSE WithLock("READY_LIST", "push", 91)

\* A schedule_next_thread that keeps ready_list until it has switched back.
C25_DropAfterSwitch(p) ==
    <<Stmt("disable_preemption", "none", 32),
      Stmt("lock", "READY_LIST", 36),
      Stmt("peek", "READY_LIST", 41)>>
    \o (IF p.ready_some THEN WithLock("CURRENT_THREAD", "compare", 43) ELSE <<>>)
    \o (IF p.ready_some /\ p.top_ge THEN <<>>
        ELSE WithLock("CURRENT_THREAD", "is_dead", 45))
    \o (IF PathNeeded(p)
        THEN <<Stmt("pop", "READY_LIST", 50)>>
             \o WithLock("CURRENT_THREAD", "swap", 56)
             \o <<Stmt("set_ready", "OLD_THREAD", 62)>>
             \o WithLock("CURRENT_THREAD", "set_running", 66)
             \o <<Stmt("switch_context", "none", 69),
                  Stmt("unlock", "READY_LIST", 53)>>
             \o AfterSwitchStatements(p)
        ELSE <<Stmt("unlock", "READY_LIST", 75)>>)
    \o <<Stmt("restore_preemption_state", "none", 78)>>

\* schedule_next_thread, lines 30-79, on the path p: the second operand of && in
\* line 43 and of || in line 45 is evaluated only if the first one does not
\* decide.
StatementsOf(p) ==
    <<Stmt("disable_preemption", "none", 32),
      Stmt("lock", "READY_LIST", 36),
      Stmt("peek", "READY_LIST", 41)>>
    \o (IF p.ready_some THEN WithLock("CURRENT_THREAD", "compare", 43) ELSE <<>>)
    \o (IF p.ready_some /\ p.top_ge THEN <<>>
        ELSE WithLock("CURRENT_THREAD", "is_dead", 45))
    \o (IF PathNeeded(p)
        THEN <<Stmt("pop", "READY_LIST", 50),
               Stmt("unlock", "READY_LIST", 53)>>
             \o WithLock("CURRENT_THREAD", "swap", 56)
             \o <<Stmt("set_ready", "OLD_THREAD", 62)>>
             \o WithLock("CURRENT_THREAD", "set_running", 66)
             \o <<Stmt("switch_context", "none", 69)>>
             \o AfterSwitchStatements(p)
        ELSE <<Stmt("unlock", "READY_LIST", 75)>>)
    \o <<Stmt("restore_preemption_state", "none", 78)>>

\* What a call can find: whether the ready list has a thread, whether its top
\* is at least the current thread, whether the current thread is dead, and
\* whether the old thread is dead when after_context_switch looks at it.
Paths == [ready_some : BOOLEAN, top_ge : BOOLEAN, current_dead : BOOLEAN,
          old_dead : BOOLEAN]

LockInit ==
    /\ path \in Paths
    /\ sched_stmt = 1
    /\ held = {}
    /\ executed = <<>>
    /\ lock_failed = "none"

LockIdle ==
    /\ path = [ready_some |-> FALSE, top_ge |-> FALSE, current_dead |-> FALSE,
               old_dead |-> FALSE]
    /\ sched_stmt = 0
    /\ held = {}
    /\ executed = <<>>
    /\ lock_failed = "none"

\* The call executes its next statement: a lock that the CPU holds already is
\* never acquired, and pop().unwrap() panics on an empty ready list.
ExecuteSchedulerStatement ==
    /\ sched_stmt \in 1..Len(StatementsOf(path))
    /\ lock_failed = "none"
    /\ LET st == StatementsOf(path)[sched_stmt] IN
       IF st.op = "lock" /\ st.on \in held
       THEN /\ lock_failed' = "deadlock"
            /\ UNCHANGED <<sched_stmt, held, executed>>
       ELSE IF st.op = "pop" /\ ~path.ready_some
       THEN /\ lock_failed' = "pop_unwrap"
            /\ UNCHANGED <<sched_stmt, held, executed>>
       ELSE /\ held' = CASE st.op = "lock" -> held \cup {st.on}
                         [] st.op = "unlock" -> held \ {st.on}
                         [] OTHER -> held
            /\ executed' = Append(executed, st)
            /\ sched_stmt' = sched_stmt + 1
            /\ UNCHANGED lock_failed
    /\ UNCHANGED path
    /\ UNCHANGED beside_locks

\* schedule_next_thread returns, line 79.
ReturnFromScheduler ==
    /\ sched_stmt = Len(StatementsOf(path)) + 1
    /\ lock_failed = "none"
    /\ sched_stmt' = 0
    /\ UNCHANGED <<path, held, executed, lock_failed>>
    /\ UNCHANGED beside_locks

\* ------------------------------------------------ memory initialization

\* memory/mod.rs:59-61: the start of the area the initramfs is mapped to, in
\* bytes from VIRTUAL_HIGH_MIN_ADDRESS (0xffff_8000_0000_0000).
INITRAMFS_MAP_AREA_START == 512 * 512 * 512

\* Address::offset_in_page
offset_in_page(address) == address % PAGE_SIZE

\* The initramfs areas a boot loader can report to memory::init.
PhysicalInitramfsAreas ==
    {MemoryArea(p * PAGE_SIZE + off, len) :
        p \in 0..(MaxPage - 1), off \in {0, 1, PAGE_SIZE - 1},
        len \in {0, 1, PAGE_SIZE - 1, PAGE_SIZE, PAGE_SIZE + 1}}

\* MemoryArea::const_default
const_default == MemoryArea(0, 0)

MemoryInit ==
    /\ physical_initramfs_area \in PhysicalInitramfsAreas
    /\ INITRAMFS_AREA = const_default
    /\ memory_pc = "boot"

MemoryIdle ==
    /\ physical_initramfs_area = const_default
    /\ INITRAMFS_AREA = const_default
    /\ memory_pc = "off"

\* memory::init, memory/mod.rs:105-116.
memory_init ==
    /\ memory_pc = "boot"
    /\ LET start == INITRAMFS_MAP_AREA_START
                       + offset_in_page(start_address(physical_initramfs_area))
       IN  INITRAMFS_AREA' = MemoryArea(start, physical_initramfs_area.length)
    /\ memory_pc' = "initialized"
    /\ UNCHANGED physical_initramfs_area
    /\ UNCHANGED beside_memory

\* memory::get_initramfs_area, memory/mod.rs:118-121, read by the kernel.
get_initramfs_area ==
    /\ memory_pc = "initialized"
    /\ memory_pc' = "read"
    /\ UNCHANGED <<physical_initramfs_area, INITRAMFS_AREA>>
    /\ UNCHANGED beside_memory

\* ------------------------------------------------------ the exec wrapper

\* The values of a register: 0 .. U64 - 1.
U64 == 2 ^ SyscallWordBits

\* `x as i64` of a register value: the same bits read in two's complement.
as_i64(x) == IF x >= U64 \div 2 THEN x - U64 ELSE x

\* `x as u64` of a signed value: the same bits read as unsigned.
as_u64(x) == x % U64

Err(e) == [tag |-> "Err", value |-> e]

Ok(v) == [tag |-> "Ok", value |-> v]

NoResult == [tag |-> "none", value |-> 0]

\* ProcessError, process.rs:14-17, as the value of an Err.
Unspecified == 0

\* A wrapper that takes the result 0 for an error as well.
C22_ZeroIsError(raw) ==
    LET result == as_i64(raw) IN
    IF result <= 0 THEN Err(Unspecified) ELSE Ok(as_u64(result))

\* process.rs:38-43: the register is read as i64; a negative result is the
\* error Unspecified, any other result is the process id.
exec_of(raw) ==
    LET result == as_i64(raw) IN
    IF result < 0 THEN Err(Unspecified) ELSE Ok(as_u64(result))

ExecInit ==
    /\ syscall_result = 0
    /\ exec_result = NoResult

\* process.rs:33-44: exec makes the system call, which returns any register
\* value, and maps it.
exec ==
    /\ \E raw \in 0..(U64 - 1) :
         /\ syscall_result' = raw
         /\ exec_result' = exec_of(raw)
    /\ UNCHANGED beside_exec

\* ------------------------------------------------------ the specifications

vars == <<sched_vars, filter_vars, stack_vars, kernel_vars, exec_vars, memory_vars, lock_vars>>

Init == SchedInit /\ FilterIdle /\ StackIdle /\ KernelInit /\ ExecInit /\ MemoryIdle /\ LockIdle

Next ==
    \/ schedule_next_thread
    \/ switch_context
    \/ after_context_switch
    \/ KillProcess
    \/ ExitThread
    \/ CreateProcess
    \/ CreateThread

\* The scheduler in the kernel's own environment: the idle process is never killed.
Spec == Init /\ [][Next]_vars

\* The scheduler when kill() may be applied to any PCB, the idle process included.
NextAnyKill == Next \/ KillIdleProcess

SpecAnyKill == Init /\ [][NextAnyKill]_vars

\* The scheduler when the entry of any process may be removed from PROCESS_LIST.
NextAnyDrop == Next \/ DropProcess

SpecAnyDrop == Init /\ [][NextAnyDrop]_vars

\* The scheduler when threads disable and enable preemption and may call
\* schedule_next_thread with preemption disabled; processes are created with
\* one thread each, and threads end themselves.
NextAnyCall ==
    \/ schedule_next_thread
    \/ call_schedule_next_thread
    \/ switch_context
    \/ after_context_switch
    \/ set_preemption
    \/ ExitThread
    \/ CreateProcess

SpecAnyCall == Init /\ [][NextAnyCall]_vars

\* The memory-map filter, consumed to its end (boot::get_memory_map).
FilterNext == new \/ next

FilterSpecInit == FilterInit /\ SchedInit /\ StackIdle /\ KernelInit /\ ExecInit /\ MemoryIdle /\ LockIdle

FilterSpec == FilterSpecInit /\ [][FilterNext]_vars

\* The memory-map filter on any input.
FilterAnySpecInit == FilterAnyInit /\ SchedInit /\ StackIdle /\ KernelInit /\ ExecInit /\ MemoryIdle /\ LockIdle

FilterAnySpec == FilterAnySpecInit /\ [][FilterNext]_vars

\* The memory-map filter on any input, with a consumer that goes on calling
\* next() (the frame allocator takes areas until it gets None).
FilterLiveSpec == FilterAnySpecInit /\ [][FilterNext]_vars /\ WF_vars(new) /\ WF_vars(next)

\* The stack: created, grown, shrunk and resized by its owner, then dropped.
StackNext ==
    \/ Stack_new
    \/ Stack_new_resize
    \/ Stack_grow
    \/ Stack_shrink
    \/ Stack_resize
    \/ Stack_drop

StackSpecInit == StackInit /\ SchedInit /\ FilterIdle /\ KernelInit /\ ExecInit /\ MemoryIdle /\ LockIdle

StackSpec == StackSpecInit /\ [][StackNext]_vars

\* The kernel from its entry by the loader to its interrupt handlers.
KernelNext ==
    \/ main
    \/ main_continues
    \/ init_again
    \/ EnableInterrupts
    \/ DeviceInterrupt
    \/ schedule
    \/ ExecuteStatement
    \/ ReturnFromInterrupt

KernelSpecInit == KernelInit /\ SchedInit /\ FilterIdle /\ StackIdle /\ ExecInit /\ MemoryIdle /\ LockIdle

KernelSpec == KernelSpecInit /\ [][KernelNext]_vars

\* The memory initialization of the boot sequence.
MemoryNext == memory_init \/ get_initramfs_area

MemorySpecInit ==
    MemoryInit /\ SchedInit /\ FilterIdle /\ StackIdle /\ KernelInit /\ ExecInit /\ LockIdle

MemorySpec == MemorySpecInit /\ [][MemoryNext]_vars

\* One call of schedule_next_thread, statement by statement.
LockNext == ExecuteSchedulerStatement \/ ReturnFromScheduler

LockSpecInit ==
    LockInit /\ SchedInit /\ FilterIdle /\ StackIdle /\ KernelInit /\ ExecInit /\ MemoryIdle

LockSpec == LockSpecInit /\ [][LockNext]_vars

\* The exec wrapper, called any number of times.
ExecNext == exec

ExecSpec == Init /\ [][ExecNext]_vars

\* ------------------------------------------------- reading schedule steps

\* The priority-greatest threads of READY_LIST as it was at the entry of the step.
PreTop == {t \in pre.ready : \A u \in pre.ready : TcbGe(t, u)}

\* The top of READY_LIST at the entry of the step was >= the CURRENT_THREAD of then.
PreTopGeCurrent == \E t \in PreTop : TcbGe(t, pre.current)

\* A step that is an invocation of schedule_next_thread.
EntryStep ==
    pc = "run" /\ (pc' = "switch" \/ failed' # failed \/ pre' # pre \/ last_step' # last_step)

\* An invocation that returns without switching.
ReturnStep == EntryStep /\ pc' = "run" /\ failed' = "none"

\* The step that ends a switching schedule step: after_context_switch has run.
CompleteStep == pc = "after" /\ pc' = "run"

\* A decision not to switch has just been taken, and pre is its entry state.
JustReturned == pc = "run" /\ last_step = "noswitch" /\ failed = "none"

\* --------------------------------------------------------------------- C1

\* The condition as the claim states it: top exists and (top >= current or dead).
C1_ClaimedNeeded == pre.ready # {} /\ (PreTopGeCurrent \/ pre.dead)

\* The condition of lines 41-45: (top exists and top >= current) or dead.
C1_CodeNeeded == (pre.ready # {} /\ PreTopGeCurrent) \/ pre.dead

C2_SwitchStep ==
    [][CompleteStep =>
        /\ CURRENT_THREAD' \in PreTop
        /\ tcbs'[CURRENT_THREAD'].state = "Running"
        /\ OLD_THREAD' = None
        /\ ~is_dead(pre.current) =>
              /\ pre.current \in READY_LIST'
              /\ tcbs'[pre.current].state = "Ready"
        /\ pre.ready \ {CURRENT_THREAD'} \subseteq READY_LIST'
        /\ READY_LIST' \subseteq pre.ready \cup {pre.current}]_vars

\* A switching step has ended that took one of several ready threads and put a
\* live thread back.
C2_Witness ==
    /\ pc = "run" /\ last_step = "switched"
    /\ Cardinality(pre.ready) >= 2
    /\ pre.current \in READY_LIST
    /\ CURRENT_THREAD \in pre.ready

\* --------------------------------------------------------------------- C3

\* C3: for every schedule step that ends, if READY_LIST was non-empty with a top
\* >= CURRENT_THREAD, the priority of CURRENT_THREAD after the step is >= its
\* priority before; and if CURRENT_THREAD was dead before the step, the
\* CURRENT_THREAD after the step is another thread.
C3_StepPriority ==
    /\ [][CompleteStep =>
            /\ (pre.ready # {} /\ PreTopGeCurrent) =>
                  tcbs[CURRENT_THREAD'].priority >= tcbs[pre.current].priority
            /\ pre.dead => CURRENT_THREAD' # pre.current]_vars
    /\ [][ReturnStep =>
            /\ (READY_LIST # {} /\ \E t \in peek : TcbGe(t, CURRENT_THREAD)) =>
                  tcbs[CURRENT_THREAD'].priority >= tcbs[CURRENT_THREAD].priority
            /\ is_dead(CURRENT_THREAD) => CURRENT_THREAD' # CURRENT_THREAD]_vars

\* A step has ended that replaced a dead CURRENT_THREAD by a thread of lower
\* priority.
C3_Witness ==
    /\ pc = "run" /\ last_step = "switched" /\ pre.dead
    /\ CURRENT_THREAD # pre.current
    /\ CURRENT_THREAD = IdleThread

\* --------------------------------------------------------------------- C4

\* Besides the idle thread there are exactly the two live threads a and b, and
\* they have the same priority.
TwoEqual(a, b) ==
    /\ a # b /\ DOMAIN tcbs = {IdleThread, a, b}
    /\ tcbs[a].priority = tcbs[b].priority
    /\ ~is_dead(a) /\ ~is_dead(b)

\* Two equal-priority threads take turns: a schedule step that starts with one of
\* them as CURRENT_THREAD ends with the other one as CURRENT_THREAD.
C4_TakeTurns ==
    [][\A a, b \in ThreadIds \ {IdleThread} :
         (TwoEqual(a, b) /\ TwoEqual(a, b)' /\ (ReturnStep \/ CompleteStep))
            => (pre'.current \in {a, b} => CURRENT_THREAD' \in {a, b} \ {pre'.current})]_vars

C5_NoKilledThreadRuns ==
    /\ [][\A t \in DOMAIN tcbs' :
            (tcbs'[t].state = "Running" /\ (t \notin DOMAIN tcbs \/ tcbs[t].state # "Running"))
               => PROCESS_LIST'[tcbs'[t].pid].state # "Dead"]_vars
    /\ [](\A p \in ProcessIds : pcb_drops[p] <= 1)
    /\ [][\A p \in DOMAIN PROCESS_LIST \ DOMAIN PROCESS_LIST' :
            PROCESS_LIST[p].thread_count = 1 /\ pcb_is_dead(p) /\ OLD_THREAD # None
            /\ tcbs[OLD_THREAD].pid = p]_vars

\* --------------------------------------------------------------------- C6

\* The PCB p is dead and t is its only thread.
KilledSingle(t, p) ==
    /\ t \in DOMAIN tcbs /\ tcbs[t].pid = p
    /\ p \in DOMAIN PROCESS_LIST /\ pcb_is_dead(p)
    /\ PROCESS_LIST[p].thread_count = 1

\* C6: after kill(pid) of a process whose single live thread is CURRENT_THREAD,
\* the next invocation of schedule_next_thread switches to another thread, and
\* the after_context_switch of that step does not push the killed thread back
\* onto READY_LIST and removes the PCB from PROCESS_LIST, dropping it.
C6_KilledCurrentLeaves ==
    /\ [][\A p \in ProcessIds :
            (EntryStep /\ KilledSingle(CURRENT_THREAD, p))
               => /\ pc' = "switch" /\ failed' = "none"
                  /\ CURRENT_THREAD' # CURRENT_THREAD
                  /\ OLD_THREAD' = CURRENT_THREAD]_vars
    /\ [][\A p \in ProcessIds :
            (CompleteStep /\ KilledSingle(pre.current, p) /\ pre.dead)
               => /\ pre.current \notin READY_LIST'
                  /\ pre.current \notin DOMAIN tcbs'
                  /\ CURRENT_THREAD' # pre.current
                  /\ p \notin DOMAIN PROCESS_LIST'
                  /\ pcb_drops'[p] = pcb_drops[p] + 1]_vars

\* The PCB of a killed single-threaded process has been dropped by the step that
\* followed the kill of its running thread.
C6_Witness ==
    /\ pc = "run" /\ last_step = "switched" /\ pre.dead
    /\ pre.current \notin DOMAIN tcbs
    /\ \E p \in ProcessIds \ {IdleProcess} :
         pcb_drops[p] = 1 /\ p \notin DOMAIN PROCESS_LIST

\* --------------------------------------------------------------------- C7

\* C7: a TCB is dropped only by after_context_switch, after switch_context has
\* taken the CPU off that thread's stack: the dropped TCB is the dead OLD_THREAD
\* and never the thread whose stack the CPU executes on.
C7_DropAfterSwitch ==
    [][\A t \in DOMAIN tcbs \ DOMAIN tcbs' :
         /\ pc = "after"
         /\ t = OLD_THREAD /\ is_dead(t)
         /\ t # cpu_stack /\ t # CURRENT_THREAD
         /\ cpu_stack = CURRENT_THREAD]_vars

\* A dead thread's TCB has been dropped.
C7_Witness ==
    /\ pc = "run" /\ last_step = "switched"
    /\ pre.current \notin DOMAIN tcbs
    /\ cpu_stack = CURRENT_THREAD

\* --------------------------------------------------------------------- C8

\* C8: OLD_THREAD is non-empty only inside a schedule step, with preemption
\* disabled; it is empty whenever schedule_next_thread can be entered or has
\* returned, so the assertion at its entry never fails.
C8_OldThreadOnlyInStep ==
    /\ OLD_THREAD # None => (~preemption /\ pc \in {"switch", "after"})
    /\ pc = "run" => OLD_THREAD = None
    /\ failed # "old_thread_assert"

\* A second switching step is under way on a thread that was switched out and
\* resumed before: OLD_THREAD is taken again.
C8_Witness ==
    /\ pc = "after" /\ OLD_THREAD # None /\ last_step = "switched"
    /\ CURRENT_THREAD = IdleThread

\* ---------------------------------------------------- reading the filter

\* The pages an area covers (every area of the model is made of whole pages).
Pages(area) ==
    {k \in 0..(MaxPage - 1) :
        start_address(area) <= k * PAGE_SIZE /\ (k + 1) * PAGE_SIZE <= end_address(area)}

PagesOf(areas) == UNION {Pages(areas[i]) : i \in 1..Len(areas)}

RECURSIVE LengthSum(_)
LengthSum(areas) ==
    IF areas = <<>> THEN 0 ELSE Head(areas).length + LengthSum(Tail(areas))

\* The areas are listed in ascending address order, none reaching into the next.
Ascending(areas) ==
    \A i, j \in 1..Len(areas) : i < j => end_address(areas[i]) <= start_address(areas[j])

\* The two areas the filter excludes: the kernel image and the initramfs pages.
Excluded == to_exclude_of(boot.kernel_area, initramfs)

\* What C9 says of the areas emitted: pairwise disjoint, ascending, within the
\* union of the input areas, and disjoint from both excluded areas.
EmittedWellFormed ==
    /\ \A i, j \in 1..Len(emitted) : i # j => ~Overlap(emitted[i], emitted[j])
    /\ Ascending(emitted)
    /\ \A i \in 1..Len(emitted) :
          /\ emitted[i].length > 0
          /\ Pages(emitted[i]) \subseteq PagesOf(boot.memory_map)
          /\ \E j \in 1..Len(boot.memory_map) : is_contained_in(emitted[i], boot.memory_map[j])
    /\ \A i \in 1..Len(emitted), x \in 1..2 : ~Overlap(emitted[i], Excluded[x])

\* What C10 says of the areas emitted once the filter is exhausted: they cover
\* the input areas less the excluded areas, and their lengths add up to that.
EmittedExact ==
    /\ PagesOf(emitted) = PagesOf(boot.memory_map) \ PagesOf(Excluded)
    /\ LengthSum(emitted) = LengthSum(boot.memory_map) - LengthSum(Excluded)

\* --------------------------------------------------------------------- C9

\* C9 as stated: for every memory map and pair of excluded areas that meet the
\* filter's documented assumptions, the emitted areas are pairwise disjoint,
\* ascending, within the union of the input areas and disjoint from both
\* excluded areas.
C9_Original == filter_pc # "new" => EmittedWellFormed

\* On a memory map that lists its areas in ascending address order the emitted
\* areas are as C9 says: the filter goes wrong only on maps in another order.
AscendingMapWellFormed ==
    (filter_pc # "new" /\ Ascending(boot.memory_map)) => EmittedWellFormed

\* --------------------------------------------------------------------- C10

\* C10 as stated: under the filter's assumptions the emitted areas are the input
\* areas less the two excluded areas, and so are their lengths in sum.
C10_Original == filter_pc = "none" => EmittedExact

\* On a memory map that lists its areas in ascending address order the filter
\* removes exactly the excluded areas, as C10 says.
AscendingMapExact ==
    (filter_pc = "none" /\ Ascending(boot.memory_map)) => EmittedExact

\* --------------------------------------------------------------------- C11

\* C11 as stated: the filter checks its assumptions; when an excluded area does
\* not lie within one input area, or the excluded areas overlap or are not sorted,
\* the filter reports the violation and does not go on to emit areas: it emits
\* nothing and never ends as if the map had been filtered.
C11_ViolationReported ==
    (filter_pc \in {"next", "none"} /\ ~Preconditions(boot.memory_map, iter.to_exclude))
        => (emitted = <<>> /\ filter_pc # "none")

\* ----------------------------------------------------- reading the stack

\* The pages that hold a byte of [low, high).
PagesIn(low, high) ==
    {q \in 0..StackWordPages : q * PAGE_SIZE < high /\ (q + 1) * PAGE_SIZE > low}

\* The pages the stack has mapped.
StackPages == {q \in DOMAIN page_table : page_table[q].by = "stack"}

Range(seq) == {seq[i] : i \in 1..Len(seq)}

\* Every element of the sequence occurs in it once.
Once(seq) == \A i, j \in 1..Len(seq) : seq[i] = seq[j] => i = j

\* The stack exists and no call on it has failed.
StackLive == stack_pc \in {"live", "dropped"} /\ stack_failed = "none"

\* While no call fails the stack keeps within its maximum size, its top is
\* page-aligned, and the pages it has mapped are those of [bottom, top).
StackWithinBounds ==
    StackLive =>
        /\ stack.bottom_address <= stack.top_address
        /\ stack.top_address - stack.bottom_address <= stack.max_size
        /\ stack.top_address % PAGE_SIZE = 0
        /\ StackPages = PagesIn(stack.bottom_address, stack.top_address)

\* --------------------------------------------------------------------- C12

GrowAsClaimed ==
        LET old == stack_call.before IN
        /\ stack_failed = "none"
        /\ stack.bottom_address =
              Max(old.top_address - old.max_size, old.bottom_address - stack_call.amount)
        /\ Once(stack_call.mapped)
        /\ Range(stack_call.mapped) =
              PagesIn(stack.bottom_address, old.top_address)
                  \ PagesIn(old.bottom_address, old.top_address)
        /\ \A q \in Range(stack_call.mapped) :
              /\ q \in DOMAIN page_table
              /\ page_table[q].flags = StackFlags(old.access_type)

\* C13 as stated: grow(n) sets bottom to max(top - max_size, bottom - n) for every
\* n, without an arithmetic failure, and maps every page newly covered by
\* [new bottom, old bottom) exactly once, with the flags R|W, plus USER for a user
\* stack.
C13_GrowClamps == stack_call.op = "grow" => GrowAsClaimed

\* A grow by no more than the address of the bottom is as C13 says: grow goes
\* wrong only where bottom - n leaves the addresses.
GrowClampsUnlessWrap ==
    (stack_call.op = "grow" /\ stack_call.amount <= stack_call.before.bottom_address)
        => GrowAsClaimed

\* --------------------------------------------------------------------- C14

\* What C14 says of the last call.
ShrinkAsClaimed ==
        LET old == stack_call.before IN
        /\ stack_failed = "none"
        /\ stack.bottom_address =
              Min(old.top_address, old.bottom_address + stack_call.amount)
        /\ Range(stack_call.unmapped) =
              PagesIn(old.bottom_address, old.top_address)
                  \ PagesIn(stack.bottom_address, old.top_address)
        /\ \A q \in Range(stack_call.unmapped) :
              /\ q \in DOMAIN stack_call.table
              /\ stack_call.table[q].by = "stack"

\* C14 as stated: shrink(n) sets bottom to min(top, bottom + n) for every n and
\* unmaps exactly the pages vacated between the old and the new bottom, never a
\* page still inside [new bottom, top) and never a page the stack had not mapped.
C14_ShrinkClamps == stack_call.op = "shrink" => ShrinkAsClaimed

\* A shrink by an amount that bottom + n holds is as C14 says: shrink goes wrong
\* only where bottom + n leaves the addresses.
ShrinkClampsUnlessWrap ==
    (stack_call.op = "shrink"
        /\ stack_call.before.bottom_address + stack_call.amount < USIZE)
        => ShrinkAsClaimed

\* --------------------------------------------------------------------- C15

\* What C15 says of the last call, a resize.
ResizeAsClaimed ==
          LET old == stack_call.before
              current_size == old.top_address - old.bottom_address
          IN  /\ stack_failed = "none"
              /\ stack.top_address - stack.bottom_address =
                    Min(stack_call.amount, old.max_size)
              /\ stack_call.amount > current_size => stack_call.unmapped = <<>>
              /\ stack_call.amount <= current_size => stack_call.mapped = <<>>
              /\ stack_call.amount = current_size =>
                    stack = old /\ page_table = stack_call.table

\* C15 as stated: resize(s) leaves the stack with size top - bottom =
\* min(s, max_size) from any prior size, growing when s exceeds the current size
\* and shrinking otherwise; resize to the current size changes nothing, and the
\* resize(0) of a drop leaves no page of the stack mapped.
C15_ResizeSets ==
    /\ stack_call.op = "resize" => ResizeAsClaimed
    /\ stack_call.op = "drop" => (stack_failed = "none" /\ StackPages = {})

\* A resize to a size that is an isize >= 0 and that grows the stack by no more
\* than the address of its bottom is as C15 says, and so is every drop.
ResizeSetsUnlessWrap ==
    /\ (stack_call.op = "resize" /\ stack_call.amount < -ISIZE_MIN
           /\ stack_call.amount - (stack_call.before.top_address
                                     - stack_call.before.bottom_address)
                 <= stack_call.before.bottom_address)
          => ResizeAsClaimed
    /\ stack_call.op = "drop" => (stack_failed = "none" /\ StackPages = {})

\* --------------------------------------------------------------------- C16

\* The segment C16 says Stack::new registers: MemoryOnly, [start, start + max),
\* R|W, plus USER for a user stack.
ClaimedSegment ==
    [start |-> stack_call.args.start, length |-> stack_call.args.max_size,
     flags |-> IF stack_call.args.access_type = "UserAccessible"
               THEN {"READABLE", "WRITABLE", "USER_ACCESSIBLE"}
               ELSE {"READABLE", "WRITABLE"},
     kind |-> "MemoryOnly"]

\* A segment of another owner overlaps the range of the stack.
RangeTaken == \E sg \in segments \ {ClaimedSegment} : SegmentsOverlap(sg, ClaimedSegment)

\* C16: Stack::new with an address space registers one MemoryOnly segment
\* [start, start + max) with the flags R|W (plus USER for a user stack) before it
\* maps a page, sets top = bottom = base_sp = start + max and then resizes to the
\* initial size; if the segment overlaps a segment of the address space, it
\* panics and maps no page, so no two overlapping segments are ever in one
\* address space.
C16_NewRegistersSegment ==
    /\ \A a, b \in segments : a # b => ~SegmentsOverlap(a, b)
    /\ (address_space /\ stack_pc # "new") => ClaimedSegment \in segments
    /\ (address_space /\ stack_call.op = "new" /\ RangeTaken) =>
          /\ stack_failed = "segment_assert"
          /\ stack_pc = "new"
          /\ ClaimedSegment \notin segments
          /\ StackPages = {}
    /\ (address_space /\ stack_pc = "resize") =>
          /\ StackPages = {}
          /\ stack.top_address = stack_call.args.start + stack_call.args.max_size
          /\ stack.bottom_address = stack.top_address
          /\ stack.base_stack_pointer = stack.top_address
    /\ (address_space /\ stack_pc = "live" /\ stack_call.op = "new"
           /\ stack_failed = "none" /\ stack_call.amount <= stack.max_size) =>
          /\ stack.top_address - stack.bottom_address = stack_call.amount
          /\ \A q \in StackPages : page_table[q].flags = ClaimedSegment.flags

\* Stack::new has panicked on a user stack whose range holds a segment of the
\* address space, with no page mapped for the stack.
C16_Witness ==
    /\ address_space /\ stack_call.op = "new" /\ RangeTaken
    /\ stack_call.args.access_type = "UserAccessible"
    /\ stack_failed = "segment_assert"
    /\ StackPages = {}

\* ------------------------------------------------- reading the handlers

\* s is a prefix of t.
IsPrefix(s, t) == Len(s) <= Len(t) /\ SubSeq(t, 1, Len(s)) = s

\* The statement has been executed by the handler h.
Done(h, statement) == \E i \in 1..Len(h.done) : h.done[i] = statement

\* The handler h is between its entry and its return; every handler on the
\* kernel stack is, and so is none that has returned.
HandlerFrames == {handlers[i] : i \in 1..Len(handlers)}

ScheduleFrames == {h \in HandlerFrames : h.vector = ScheduleVector}

EnvelopeFrames == {h \in HandlerFrames : h.vector \in DeviceVectors}

\* The content of the envelope h is running: interrupts have been enabled for
\* it and not yet disabled again.
InBody(h) == Done(h, "enable") /\ ~Done(h, "disable")

\* --------------------------------------------------------------------- C17

C18_OneLevel ==
    /\ Len(handlers) <= 2
    /\ \A h \in EnvelopeFrames : InBody(h) => task_priority >= RAISED_PRIORITY
    /\ \A i \in 1..Len(handlers) :
         /\ i > 1 => handlers[i].vector = ScheduleVector
         /\ i < Len(handlers) => handlers[i].vector \in DeviceVectors

\* --------------------------------------------------------------------- C19

\* The steps C19 lists for the envelope of the vector v.
EnvelopeOrder(v) ==
    <<"set_priority", "enable",
      IF v = TimerVector THEN "timer_interrupt" ELSE "keyboard_interrupt",
      "disable", "signal_eoi", "restore_priority">>

\* What h has done besides reading the task priority.
StepsOf(h) == SelectSeq(h.done, LAMBDA statement : statement # "get_priority")

\* C19: every timer or keyboard IRQ raises the task priority, enables
\* interrupts, runs its content, disables interrupts, signals EOI and restores
\* the priority, in this order; EOI is signalled once and with interrupts
\* disabled, and at the return the task priority is the one at the entry.
C19_EnvelopeOrder ==
    /\ \A h \in EnvelopeFrames :
         /\ IsPrefix(StepsOf(h), EnvelopeOrder(h.vector))
         /\ \A i \in 1..Len(h.eoi_flags) : h.eoi_flags[i] = FALSE
    /\ returned.vector \in DeviceVectors =>
         /\ StepsOf(returned) = EnvelopeOrder(returned.vector)
         /\ returned.eoi_flags = <<FALSE>>
         /\ returned.exit_priority = returned.entry_priority

\* A timer interrupt has run its envelope and has returned to the code of a
\* thread, with the task priority of its entry.
C19_Witness ==
    /\ returned.vector = TimerVector
    /\ returned.exit_priority = returned.entry_priority
    /\ handlers = <<>>
    /\ interrupts_enabled

\* --------------------------------------------------------------------- C20

\* The boot entry has dispatched as C20 says.
Dispatched ==
    boot_pc # "loader" =>
       CASE magic_number = 732803074 ->
                BOOT_METHOD = "Multiboot" /\ information_structure = "multiboot"
         [] magic_number = 920085129 ->
                BOOT_METHOD = "Multiboot2" /\ information_structure = "multiboot2"
         [] OTHER ->
                /\ boot_pc = "stopped"
                /\ information_structure = "unread"
                /\ ~interrupts_enabled /\ handlers = <<>>

\* C20: the boot entry selects protocol 1 for the magic number 0x2BADB002 and
\* protocol 2 for 0x36D76289; for every other value the kernel stops without
\* reading the information structure; the boot method never changes once
\* boot::init has been called.
C20_MagicDispatch ==
    [][/\ Dispatched'
       /\ init_called => BOOT_METHOD' = BOOT_METHOD]_vars

\* The kernel has stopped on the magic number of a multiboot header.
C20_Witness ==
    /\ boot_pc = "stopped"
    /\ magic_number = 464367618
    /\ BOOT_METHOD = "Unknown"
    /\ information_structure = "unread"

\* --------------------------------------------------------------------- C21

\* The threads of the process p that exist in the given TCB table.
ThreadsOf(table, p) == {t \in DOMAIN table : table[t].pid = p}

\* C21: a PCB is dropped only when it counts no thread: the drop of a PCB that
\* still counts threads panics and the PCB stays; a new PCB is Active with
\* thread_count 1, so it is not dropped while its first thread exists.
C21_DropOnlyWithoutThreads ==
    [][\A p \in ProcessIds :
         /\ (p \in DOMAIN PROCESS_LIST /\ p \notin DOMAIN PROCESS_LIST') =>
               /\ failed' = "none"
               /\ PROCESS_LIST[p].thread_count
                     = Cardinality(ThreadsOf(tcbs, p) \ DOMAIN tcbs')
               /\ ThreadsOf(tcbs', p) = {}
         /\ (p \notin DOMAIN PROCESS_LIST /\ p \in DOMAIN PROCESS_LIST') =>
               /\ PROCESS_LIST'[p] = [thread_count |-> 1, state |-> "Active"]
               /\ Cardinality(ThreadsOf(tcbs', p)) = 1
         /\ (failed = "none" /\ failed' = "pcb_drop_assert") =>
               /\ PROCESS_LIST' = PROCESS_LIST
               /\ \E q \in DOMAIN PROCESS_LIST : PROCESS_LIST[q].thread_count > 0]_vars

\* The drop of a process created by PCB::new whose first thread still exists
\* has panicked.
C21_Witness ==
    /\ failed = "pcb_drop_assert"
    /\ \E p \in DOMAIN PROCESS_LIST \ {IdleProcess} :
         /\ PROCESS_LIST[p] = [thread_count |-> 1, state |-> "Active"]
         /\ ThreadsOf(tcbs, p) # {}

\* --------------------------------------------------------------------- C22

\* The result code the system call has returned, as a signed number.
ResultCode ==
    IF syscall_result >= U64 \div 2 THEN syscall_result - U64 ELSE syscall_result

\* C22: exec maps every negative result code of the system call to the error
\* Unspecified and every other result code to the success that carries exactly
\* this value as the process id.
C22_ExecMapsResult ==
    exec_result # NoResult =>
       /\ ResultCode < 0 => exec_result = [tag |-> "Err", value |-> Unspecified]
       /\ ResultCode >= 0 => exec_result = [tag |-> "Ok", value |-> ResultCode]

\* exec has returned the error for the result code -1.
C22_Witness ==
    /\ ResultCode = -1
    /\ exec_result.tag = "Err"

\* --------------------------------------------------------------------- C23

\* C23: the initramfs window starts 512^3 pages of 4 KiB above
\* 0xffff_8000_0000_0000, and after memory::init the run-time initramfs area
\* starts at the window start plus the in-page offset of the physical start and
\* is as long as the physical area.
C23_InitramfsWindow ==
    memory_pc \in {"initialized", "read"} =>
       /\ INITRAMFS_AREA.start \div PAGE_SIZE = 512 * 512 * 512
       /\ INITRAMFS_AREA.start % PAGE_SIZE = physical_initramfs_area.start % PAGE_SIZE
       /\ INITRAMFS_AREA.length = physical_initramfs_area.length

\* What holds of the code: the window starts 512^3 bytes above
\* 0xffff_8000_0000_0000, that is 32768 pages.
InitramfsWindowInBytes ==
    memory_pc \in {"initialized", "read"} =>
       /\ INITRAMFS_AREA.start \div PAGE_SIZE = 32768
       /\ INITRAMFS_AREA.start % PAGE_SIZE = physical_initramfs_area.start % PAGE_SIZE
       /\ INITRAMFS_AREA.length = physical_initramfs_area.length

\* --------------------------------------------------------------------- C24

\* C24: schedule_next_thread has preemption disabled while it changes the
\* scheduler state; when it returns without a switch, preemption is as it was at
\* its entry; a thread that is switched out saves the state of its own entry,
\* nothing else changes what a thread has saved, and the thread that is resumed
\* gets back the state it has saved itself.
C24_PreemptionRestored ==
    /\ [](pc \in {"switch", "after"} => ~preemption)
    /\ [][/\ (pc = "run" /\ pc' = "run" /\ failed' = "none" /\ last_step' = "noswitch")
               => preemption' = preemption
          /\ \A t \in ThreadIds :
                preemption_state'[t] # preemption_state[t] =>
                   /\ pc = "run" /\ pc' = "switch"
                   /\ t = CURRENT_THREAD /\ t = OLD_THREAD'
                   /\ preemption_state'[t] = preemption
          /\ (pc = "after" /\ pc' = "run") =>
                preemption' = preemption_state[CURRENT_THREAD']]_vars

\* A thread that had entered schedule_next_thread with preemption enabled is
\* running again with preemption enabled after a thread that had entered it
\* with preemption disabled.
C24_Witness ==
    /\ pc = "run" /\ last_step = "switched"
    /\ ~pre.preemption
    /\ preemption

\* --------------------------------------------------------------------- C25

\* The numbers of the executed statements that do op on the lock.
Executed(op, on) ==
    {i \in 1..Len(executed) : executed[i].op = op /\ executed[i].on = on}

\* The call is about to execute a statement that does op.
About(op) ==
    /\ sched_stmt \in 1..Len(StatementsOf(path))
    /\ StatementsOf(path)[sched_stmt].op = op

\* C25: the decision and the pop are made under one hold of the READY_LIST
\* lock, which is released before the context switch: at switch_context and at
\* the return of schedule_next_thread the CPU holds neither the READY_LIST lock
\* nor the CURRENT_THREAD lock.
C25_LocksReleased ==
    /\ \A i \in 1..Len(executed) :
          executed[i].op \in {"peek", "compare", "is_dead", "pop"} =>
             \E l \in Executed("lock", "READY_LIST") :
                /\ l < i
                /\ \A u \in Executed("unlock", "READY_LIST") : u > i
                /\ \A k \in Executed("lock", "READY_LIST") : k < i => k = l
    /\ About("switch_context") => held = {}
    /\ (sched_stmt = 0 \/ sched_stmt = Len(StatementsOf(path)) + 1) => held = {}
    /\ lock_failed # "deadlock"

\* The call has decided to switch, has popped the next thread and is about to
\* switch the context.
C25_Witness ==
    /\ About("switch_context")
    /\ Executed("pop", "READY_LIST") # {}
    /\ held = {}

\* --------------------------------------------------------------------- C26

\* No emitted area is empty.
NoEmptyArea == \A i \in 1..Len(emitted) : emitted[i].length > 0

\* What C26 says of an excluded area X that lies in the input area E: if X starts
\* where E starts, no piece of E before X is emitted; if X ends where E ends, no
\* piece of E after X is emitted; if X is all of E, nothing of E is emitted.
EdgesRespected ==
    \A x \in 1..2, j \in 1..Len(boot.memory_map) :
       LET X == Excluded[x]
           E == boot.memory_map[j]
       IN  (X.length > 0 /\ is_contained_in(X, E)) =>
              /\ start_address(X) = start_address(E) =>
                    \A i \in 1..Len(emitted) : start_address(emitted[i]) # start_address(E)
              /\ end_address(X) = end_address(E) =>
                    \A i \in 1..Len(emitted) : end_address(emitted[i]) # end_address(E)
              /\ X = E => \A i \in 1..Len(emitted) : ~Overlap(emitted[i], E)

\* C26: the filter never emits an empty area; an exclusion at the start of the
\* current area yields no piece before it, an exclusion at the end of the
\* current area makes the filter go on to the next input area, and of an input
\* area that is an excluded area nothing is emitted.
C26_NoEmptyPieces == filter_pc # "new" => (NoEmptyArea /\ EdgesRespected)

\* On a memory map that lists its areas in ascending address order the filter
\* does as C26 says.
AscendingMapEdges ==
    (filter_pc # "new" /\ Ascending(boot.memory_map)) => (NoEmptyArea /\ EdgesRespected)

\* On any input whatever no emitted area is empty.
AnyMapNoEmptyArea == NoEmptyArea

\* --------------------------------------------------------------------- C27

\* The threads held in OLD_THREAD (none or one).
InOldThread == IF OLD_THREAD = None THEN {} ELSE {OLD_THREAD}

\* The threads held in one of the three places.
Held == {CURRENT_THREAD} \cup InOldThread \cup READY_LIST

\* Every TCB that was not dropped is in exactly one of the three places.
InExactlyOnePlace ==
    /\ DOMAIN tcbs = Held
    /\ CURRENT_THREAD \notin InOldThread \cup READY_LIST
    /\ InOldThread \cap READY_LIST = {}

\* C27: every thread that was not dropped is held in exactly one of
\* CURRENT_THREAD, OLD_THREAD and READY_LIST; every thread in READY_LIST has state
\* Ready; when after_context_switch has run, the thread in CURRENT_THREAD and no
\* other has state Running; and a TCB leaves the three places only when
\* after_context_switch drops it as the dead old thread.
C27_ThreadsConserved ==
    /\ [](InExactlyOnePlace /\ \A t \in READY_LIST : tcbs[t].state = "Ready")
    /\ [][/\ after_context_switch =>
                \A t \in DOMAIN tcbs' : tcbs'[t].state = "Running" <=> t = CURRENT_THREAD'
          /\ \A t \in Held \ Held' :
                /\ after_context_switch
                /\ t = OLD_THREAD /\ is_dead(t)
                /\ t \notin DOMAIN tcbs']_vars

\* A switch has put the old thread back into READY_LIST, and before that some
\* thread was dropped.
C27_Witness ==
    /\ last_step = "switched" /\ pc = "run"
    /\ pre.current \in READY_LIST
    /\ created.threads > Cardinality(DOMAIN tcbs) - 1

\* --------------------------------------------------------------------- C28

\* The idle thread was never dead: its process was not killed and its TCB was
\* not marked dead (death is for ever, so this is a predicate of the state).
IdleNeverDead ==
    /\ IdleProcess \in DOMAIN PROCESS_LIST
    /\ PROCESS_LIST[IdleProcess].state = "Active"
    /\ IdleThread \in DOMAIN tcbs => tcbs[IdleThread].state # "Dead"

\* C28: as long as the idle thread was never dead, between schedule steps it is
\* CURRENT_THREAD or in READY_LIST; so whenever schedule_next_thread decides to
\* switch READY_LIST is not empty, and ready_list.pop().unwrap() never fails.
C28_IdleKeepsReadyListFilled ==
    IdleNeverDead =>
       /\ pc = "run" => IdleThread \in {CURRENT_THREAD} \cup READY_LIST
       /\ (pc = "run" /\ schedule_needed) => READY_LIST # {}
       /\ failed # "pop_unwrap"

\* schedule_next_thread has switched away from a dead thread when the idle
\* thread was the only thread in READY_LIST.
C28_Witness ==
    /\ pc = "switch" /\ IdleNeverDead
    /\ pre.dead /\ pre.ready = {IdleThread}
    /\ CURRENT_THREAD = IdleThread

\* --------------------------------------------------------------------- C30

\* Every byte of the area lies in the other area.
Covers(other, area) == area.length = 0 \/ is_contained_in(area, other)

\* No emitted area holds a byte of the initramfs.
InitramfsNotFree ==
    \A i \in 1..Len(emitted) :
       boot.initramfs_area.length = 0 \/ ~Overlap(emitted[i], boot.initramfs_area)

\* C30: the page-rounded exclusion area covers the whole initramfs area the boot
\* loader reported, whatever its start and length, and the filter reports no
\* byte of the initramfs as free.
C30_RoundedCoversInitramfs ==
    filter_pc # "new" => (Covers(initramfs, boot.initramfs_area) /\ InitramfsNotFree)

\* The same for memory maps in ascending order only.
AscendingMapInitramfsNotFree ==
    (filter_pc # "new" /\ Ascending(boot.memory_map)) => InitramfsNotFree

\* An initramfs that starts at a page boundary is covered.
AlignedInitramfsCovered ==
    (filter_pc # "new" /\ offset_in_page(start_address(boot.initramfs_area)) = 0)
       => Covers(initramfs, boot.initramfs_area)

\* On an ascending memory map no byte of an initramfs that starts at a page
\* boundary is reported as free.
AlignedInitramfsNotFree ==
    (/\ filter_pc # "new" /\ Ascending(boot.memory_map)
     /\ offset_in_page(start_address(boot.initramfs_area)) = 0) => InitramfsNotFree

\* --------------------------------------------------------------------- C31

\* What one call of next() does to the filter: it repeats its loop at most twice
\* and only after advancing the exclusion index, and the index does not decrease.
CallBounded ==
    LET call == next_of(iter) IN
    /\ call.continues <= 2
    /\ call.continues <= call.iter.exclude_index - iter.exclude_index
    /\ iter'.exclude_index >= iter.exclude_index

\* A call after next() has returned None returns None and does not call next()
\* of the boot loader's iterator.
NoneForEver ==
    filter_pc = "none" =>
       /\ next_of(iter).item = <<>>
       /\ emitted' = emitted /\ filter_pc' = "none"
       /\ iter'.consumed = iter.consumed /\ iter' = iter

\* What is left for the filter to do: the areas not yet handed out and, for the
\* current one, the exclusions not yet handled.
Rank(it) ==
    3 * (Len(it.current_entry) + Len(it.multiboot_iterator)) + (2 - it.exclude_index)

\* Every call of next() that yields an area leaves less to do.
RankDecreases ==
    next_of(iter).item # <<>> => (Rank(iter') < Rank(iter) /\ Rank(iter') >= 0)

\* C31: every call of next() ends, having repeated its loop at most twice and
\* only after advancing the exclusion index; the filter yields finitely many
\* areas and then None (every area it yields leaves less to do, and what is left
\* to do is never negative); after None every call returns None and leaves the
\* boot loader's iterator alone; the exclusion index never decreases and never
\* exceeds 2.
C31_FilterTerminates ==
    /\ [](iter.exclude_index <= 2)
    /\ [][next => (CallBounded /\ RankDecreases /\ NoneForEver)]_vars

\* With a consumer that goes on calling next(), the filter returns None in the end.
FilterReachesNone == <>(filter_pc = "none")

\* The filter has returned None after it yielded some area, having handled both
\* exclusions and taken every area of the boot loader's iterator.
C31_Witness ==
    /\ filter_pc = "none" /\ emitted # <<>>
    /\ iter.exclude_index = 2
    /\ iter.consumed = Len(boot.memory_map) + 1

\* --------------------------------------------------------------------- C32

\* The pages q with page_num(bottom) <= q < page_num(top).
PagesOfStack ==
    {q \in 0..StackWordPages :
        page_num(stack.bottom_address) <= q /\ q < page_num(stack.top_address)}

\* The last call mapped no page that was mapped and unmapped no page that was not
\* mapped by the stack, and no page twice.
MapsAndUnmapsFit ==
    /\ Once(stack_call.mapped) /\ Once(stack_call.unmapped)
    /\ \A q \in Range(stack_call.mapped) : q \notin DOMAIN stack_call.table
    /\ \A q \in Range(stack_call.unmapped) :
          q \in DOMAIN stack_call.table /\ stack_call.table[q].by = "stack"

\* The free memory taken by the stack: PAGE_SIZE for every page mapped, less
\* PAGE_SIZE for every page unmapped.
FreeMemoryTaken == PAGE_SIZE * (stack_call.map_calls - stack_call.unmap_calls)

\* C32: after any sequence of grow, shrink and resize calls the pages the stack
\* has mapped are exactly those from page_num(bottom) up to, not including,
\* page_num(top); no call maps a mapped page or unmaps a page that is not mapped;
\* and when the stack has been resized to 0 every page mapped has been unmapped
\* once, so that free memory is what it was before the stack was created.
C32_MappedPagesExact ==
    StackLive =>
        /\ StackPages = PagesOfStack
        /\ MapsAndUnmapsFit
        /\ FreeMemoryTaken = PAGE_SIZE * Cardinality(StackPages)
        /\ stack.bottom_address = stack.top_address =>
              (StackPages = {} /\ FreeMemoryTaken = 0)

\* A stack that was grown and shrunk by amounts that are no multiples of the page
\* size has been dropped, after it had mapped more than one page.
C32_Witness ==
    /\ stack_pc = "dropped" /\ stack_failed = "none"
    /\ stack.bottom_address = stack.top_address
    /\ stack_call.before.bottom_address % PAGE_SIZE # 0
    /\ stack_call.map_calls > 1

====
